---- MODULE Spec2Model ----
(***************************************************************************)
(* A model of bpy_helper: the random point sampler of random.py, the      *)
(* bounding volumes and the normalization of scene.py, look_at_to_c2w and   *)
(* the camera creators of camera.py, the light creators of light.py, the    *)
(* node lookup and the compositor functions of io.py, uv_unwrap of mesh.py, *)
(* stdout_redirected of utils.py and the render loop of the example         *)
(* render_y_up.py.  Each part has its own specification; the others are     *)
(* held at their initial values by its initial condition.                   *)
(*                                                                          *)
(* Numbers.  The sampler works on floats; the model works on exact values. *)
(* A number is a record [r, s] standing for (r + s*sqrt(3)) / FP, which is  *)
(* closed under the products the sampler forms when the generator yields    *)
(* quarters (0, 1/4, 1/2, 3/4): then phi is a multiple of 90 degrees and    *)
(* theta = acos(2u - 1) is one of 180, 120, 90, 60 degrees.  Angles are     *)
(* kept in degrees; radii are multiples of 4 so that every product is exact.*)
(***************************************************************************)
EXTENDS Integers, Naturals, Sequences, FiniteSets, TLC

VARIABLES gstate, min_dist_to_origin, max_dist_to_origin, min_theta_in_degree,
          max_theta_in_degree, pc, seed, N, z_up, i, phi, theta, ret, entry, prev,
          objects, bbox_call, den, sphere_call, norm_call, norm_calls, uv_call,
          lookat_call, data_objects, world, light_call, nodes, node_call,
          stdio, script, camera_call, tree, passes, comp_call

vars == <<gstate, min_dist_to_origin, max_dist_to_origin, min_theta_in_degree,
          max_theta_in_degree, pc, seed, N, z_up, i, phi, theta, ret, entry, prev,
          objects, bbox_call, den, sphere_call, norm_call, norm_calls, uv_call,
          lookat_call, data_objects, world, light_call, nodes, node_call,
          stdio, script, camera_call, tree, passes, comp_call>>

sampler_vars == <<gstate, min_dist_to_origin, max_dist_to_origin, min_theta_in_degree,
                  max_theta_in_degree, pc, seed, N, z_up, i, phi, theta, ret, entry, prev>>

scene_vars == <<objects, bbox_call, den, sphere_call, norm_call, norm_calls, uv_call>>

run_vars == <<stdio, script, camera_call, tree, passes, comp_call>>

lib_vars == <<lookat_call, data_objects, world, light_call, nodes, node_call>>

tool_vars == <<lib_vars, run_vars>>

args == <<min_dist_to_origin, max_dist_to_origin, min_theta_in_degree, max_theta_in_degree>>

----------------------------------------------------------------------------
(* Bounds and input sets *)

MaxN == 2
ConcMaxN == 1
MaxObjects == 2

\* seeds are naturals; None is the absent seed
None == -1
Seeds == {None, 0, 1}
Radii == {-4, 0, 4}
Degrees == {0, 60, 180, 240}
Threads == {1, 2}
MainThread == 1

----------------------------------------------------------------------------
(* Exact arithmetic on (r + s*sqrt(3)) / FP *)

FP == 4

Num(r, s) == [r |-> r, s |-> s]
Rat(k) == Num(FP * k, 0)
Add(a, b) == Num(a.r + b.r, a.s + b.s)
Sub(a, b) == Num(a.r - b.r, a.s - b.s)
Mul(a, b) == Num((a.r * b.r + 3 * a.s * b.s) \div FP, (a.r * b.s + a.s * b.r) \div FP)

\* math.cos and math.sin on the angles that occur, in degrees
cos(deg) ==
    CASE deg = 0 -> Num(4, 0)
      [] deg = 60 -> Num(2, 0)
      [] deg = 90 -> Num(0, 0)
      [] deg = 120 -> Num(-2, 0)
      [] deg = 180 -> Num(-4, 0)
      [] deg = 270 -> Num(0, 0)

sin(deg) ==
    CASE deg = 0 -> Num(0, 0)
      [] deg = 60 -> Num(0, 2)
      [] deg = 90 -> Num(4, 0)
      [] deg = 120 -> Num(0, 2)
      [] deg = 180 -> Num(0, 0)
      [] deg = 270 -> Num(-4, 0)

\* math.acos(2.0 * u - 1.0) for u = q/4, in degrees
acos(q) ==
    CASE q = 0 -> 180
      [] q = 1 -> 120
      [] q = 2 -> 90
      [] q = 3 -> 60

----------------------------------------------------------------------------
(* The process-wide generator of the random module: a full-period          *)
(* congruential generator whose output is a quarter q, standing for q/4.   *)

RandMod == 8

RandomSeed(s) == (3 * s + 1) % RandMod
RandomNext(g) == (5 * g + 3) % RandMod
RandomValue(g) == RandomNext(g) \div 2

----------------------------------------------------------------------------
(* gen_random_pts_around_origin, one step per use of the generator *)

\* the loop condition with the upper test of the band off by one
OutOfBand_ClosedAbove(th) == th < min_theta_in_degree \/ th >= max_theta_in_degree

\* the loop condition without its upper test
OutOfBand_LowerOnly(th) == th < min_theta_in_degree

OutOfBand(th) == th < min_theta_in_degree \/ th > max_theta_in_degree

SphericalPt(dist, th, ph) ==
    <<Mul(Mul(dist, sin(th)), cos(ph)), Mul(Mul(dist, sin(th)), sin(ph)), Mul(dist, cos(th))>>

\* the point left as it is
SwapYZ_None(pt) == pt

SwapYZ(pt) == <<pt[1], pt[3], pt[2]>>

\* the draw scaled by max_dist instead of by the width of the shell
Dist_Scaled(q) ==
    Add(Rat(min_dist_to_origin), Mul(Num(q, 0), Rat(max_dist_to_origin)))

Dist(q) ==
    Add(Rat(min_dist_to_origin), Mul(Num(q, 0), Rat(max_dist_to_origin - min_dist_to_origin)))

\* the seed never applied
SeedGenerator_NoSeed(sd, g) == g

\* if seed is not None: random.seed(seed)
SeedGenerator(sd, g) == IF sd # None THEN RandomSeed(sd) ELSE g

\* the point put in front of the list
Appended_Front(r, pt) == <<pt>> \o r

\* ret.append(pt)
Appended(r, pt) == Append(r, pt)

Call(t, sd, n, zu) ==
    /\ pc[t] = "idle"
    /\ seed' = [seed EXCEPT ![t] = sd]
    /\ N' = [N EXCEPT ![t] = n]
    /\ z_up' = [z_up EXCEPT ![t] = zu]
    /\ entry' = [entry EXCEPT ![t] = gstate]
    /\ gstate' = SeedGenerator(sd, gstate)
    /\ ret' = [ret EXCEPT ![t] = <<>>]
    /\ i' = [i EXCEPT ![t] = 0]
    /\ pc' = [pc EXCEPT ![t] = "for"]
    /\ UNCHANGED <<scene_vars, tool_vars, args, phi, theta, prev>>

DrawPhi(t) ==
    /\ pc[t] = "for"
    /\ i[t] < N[t]
    /\ phi' = [phi EXCEPT ![t] = 90 * RandomValue(gstate)]
    /\ gstate' = RandomNext(gstate)
    /\ pc' = [pc EXCEPT ![t] = "theta"]
    /\ UNCHANGED <<scene_vars, tool_vars, args, seed, N, z_up, i, theta, ret, entry, prev>>

DrawTheta(t) ==
    /\ pc[t] = "theta"
    /\ theta' = [theta EXCEPT ![t] = acos(RandomValue(gstate))]
    /\ gstate' = RandomNext(gstate)
    /\ pc' = [pc EXCEPT ![t] = "while"]
    /\ UNCHANGED <<scene_vars, tool_vars, args, seed, N, z_up, i, phi, ret, entry, prev>>

Redraw(t) ==
    /\ pc[t] = "while"
    /\ OutOfBand(theta[t])
    /\ theta' = [theta EXCEPT ![t] = acos(RandomValue(gstate))]
    /\ gstate' = RandomNext(gstate)
    /\ UNCHANGED <<scene_vars, tool_vars, args, pc, seed, N, z_up, i, phi, ret, entry, prev>>

AppendPt(t) ==
    /\ pc[t] = "while"
    /\ ~OutOfBand(theta[t])
    /\ LET dist == Dist(RandomValue(gstate))
           pt == SphericalPt(dist, theta[t], phi[t])
       IN ret' = [ret EXCEPT ![t] = Appended(@, IF z_up[t] THEN pt ELSE SwapYZ(pt))]
    /\ gstate' = RandomNext(gstate)
    /\ i' = [i EXCEPT ![t] = @ + 1]
    /\ pc' = [pc EXCEPT ![t] = "for"]
    /\ UNCHANGED <<scene_vars, tool_vars, args, seed, N, z_up, phi, theta, entry, prev>>

Return(t) ==
    /\ pc[t] = "for"
    /\ i[t] >= N[t]
    /\ pc' = [pc EXCEPT ![t] = "done"]
    /\ i' = [i EXCEPT ![t] = 0]
    /\ phi' = [phi EXCEPT ![t] = 0]
    /\ theta' = [theta EXCEPT ![t] = 0]
    /\ UNCHANGED <<scene_vars, tool_vars, args, gstate, seed, N, z_up, ret, entry, prev>>

\* the whole call as a function of the generator state it starts from:
\* the accepted theta and the generator state after the rejection loop
RECURSIVE RejectionLoop(_, _)
RejectionLoop(th, g) ==
    IF OutOfBand(th) THEN RejectionLoop(acos(RandomValue(g)), RandomNext(g))
    ELSE [theta |-> th, g |-> g]

RECURSIVE GenPts(_, _, _)
GenPts(g, n, zu) ==
    IF n = 0 THEN <<>>
    ELSE LET ph == 90 * RandomValue(g)
             g1 == RandomNext(g)
             acc == RejectionLoop(acos(RandomValue(g1)), RandomNext(g1))
             pt == SphericalPt(Dist(RandomValue(acc.g)), acc.theta, ph)
         IN <<IF zu THEN pt ELSE SwapYZ(pt)>> \o GenPts(RandomNext(acc.g), n - 1, zu)

----------------------------------------------------------------------------
(* The caller: it either keeps the list a seeded call returned, to compare *)
(* later lists with, or drops it; then it is free to call again.           *)

NoCall == [seed |-> None, N |-> 0, z_up |-> TRUE, ret |-> <<>>]

\* the caller's record of the call is gone once it has taken the result
Forget(t) ==
    /\ pc' = [pc EXCEPT ![t] = "idle"]
    /\ seed' = [seed EXCEPT ![t] = None]
    /\ N' = [N EXCEPT ![t] = 0]
    /\ z_up' = [z_up EXCEPT ![t] = TRUE]
    /\ ret' = [ret EXCEPT ![t] = <<>>]
    /\ entry' = [entry EXCEPT ![t] = 0]
    /\ UNCHANGED <<scene_vars, tool_vars, args, gstate, i, phi, theta>>

Keep(t) ==
    /\ pc[t] = "done"
    /\ seed[t] # None
    /\ prev' = [seed |-> seed[t], N |-> N[t], z_up |-> z_up[t], ret |-> ret[t]]
    /\ Forget(t)

Drop(t) ==
    /\ pc[t] = "done"
    /\ Forget(t)
    /\ UNCHANGED prev

----------------------------------------------------------------------------
(* The scene of scene.py: the objects of bpy.context.scene, in scene order. *)
(* An object has a local box [lo, hi], whose 8 corners are its bound_box,   *)
(* a matrix_world (a 3x3 block m and a translation t) and is a mesh or not. *)

Vec(x, y, z) == <<x, y, z>>
Axes == 1 .. 3

Min(x, y) == IF x <= y THEN x ELSE y
Max(x, y) == IF x >= y THEN x ELSE y

\* math.inf: above every coordinate of a scene
inf == 1000000

Corners == {Vec(-1, -2, 0), Vec(1, 2, 3)}

Identity == [m |-> <<Vec(1, 0, 0), Vec(0, 1, 0), Vec(0, 0, 1)>>, t |-> Vec(0, 0, 0)]
Matrices ==
    { Identity,
      [m |-> <<Vec(2, 0, 0), Vec(0, 2, 0), Vec(0, 0, 2)>>, t |-> Vec(1, 0, -7)],
      [m |-> <<Vec(1, 0, 0), Vec(0, 0, -1), Vec(0, 1, 0)>>, t |-> Vec(0, 0, 0)],
      [m |-> <<Vec(-1, 0, 0), Vec(0, 1, 0), Vec(0, 0, 1)>>, t |-> Vec(0, 5, 0)] }

SceneObjects ==
    { obj \in [mesh : BOOLEAN, lo : Corners, hi : Corners, matrix_world : Matrices] :
          \A a \in Axes : obj.lo[a] <= obj.hi[a] }

\* obj.bound_box
bound_box(obj) ==
    << Vec(obj.lo[1], obj.lo[2], obj.lo[3]), Vec(obj.lo[1], obj.lo[2], obj.hi[3]),
       Vec(obj.lo[1], obj.hi[2], obj.hi[3]), Vec(obj.lo[1], obj.hi[2], obj.lo[3]),
       Vec(obj.hi[1], obj.lo[2], obj.lo[3]), Vec(obj.hi[1], obj.lo[2], obj.hi[3]),
       Vec(obj.hi[1], obj.hi[2], obj.hi[3]), Vec(obj.hi[1], obj.hi[2], obj.lo[3]) >>

\* matrix_world @ coord
MatMul(mw, v) ==
    [a \in Axes |-> mw.m[a][1] * v[1] + mw.m[a][2] * v[2] + mw.m[a][3] * v[3] + mw.t[a]]

\* scene_meshes(): the scene order positions of the mesh objects
RECURSIVE MeshesFrom(_)
MeshesFrom(k) ==
    IF k > Len(objects) THEN <<>>
    ELSE (IF objects[k].mesh THEN <<k>> ELSE <<>>) \o MeshesFrom(k + 1)

scene_meshes == MeshesFrom(1)

\* "scene_meshes() if single_obj is None else [single_obj]"
NoObject == 0
Considered(single_obj) == IF single_obj = NoObject THEN scene_meshes ELSE <<single_obj>>

bbox_min_init == Vec(inf, inf, inf)

\* the maximum started from 0 instead of from -inf
bbox_max_from_zero == Vec(0, 0, 0)

bbox_max_init == Vec(-inf, -inf, -inf)

\* the loop over obj.bound_box of one object
RECURSIVE CornerLoop(_, _, _, _)
CornerLoop(obj, ignore_matrix, k, box) ==
    IF k > Len(bound_box(obj)) THEN box
    ELSE LET coord == IF ignore_matrix THEN bound_box(obj)[k]
                      ELSE MatMul(obj.matrix_world, bound_box(obj)[k])
         IN CornerLoop(obj, ignore_matrix, k + 1,
                [min |-> [a \in Axes |-> Min(box.min[a], coord[a])],
                 max |-> [a \in Axes |-> Max(box.max[a], coord[a])]])

\* the loop over the considered objects
RECURSIVE ObjectLoop(_, _, _, _)
ObjectLoop(objs, ignore_matrix, k, box) ==
    IF k > Len(objs) THEN box
    ELSE ObjectLoop(objs, ignore_matrix, k + 1,
             CornerLoop(objects[objs[k]], ignore_matrix, 1, box))

RuntimeError == [raised |-> TRUE]

\* scene_bbox(single_obj, ignore_matrix): the pair returned, or the error raised
scene_bbox(single_obj, ignore_matrix) ==
    LET objs == Considered(single_obj)
        found == Len(objs) > 0
        box == ObjectLoop(objs, ignore_matrix, 1, [min |-> bbox_min_init, max |-> bbox_max_init])
    IN IF ~found THEN RuntimeError
       ELSE [raised |-> FALSE, min |-> box.min, max |-> box.max]

NoBBoxCall == [called |-> FALSE]
NoSphereCall == [called |-> FALSE]
NoNormCall == [called |-> FALSE, pc |-> "done"]
NoUvCall == [called |-> FALSE, pc |-> "done"]
NoLookAtCall == [called |-> FALSE]
NoLightCall == [called |-> FALSE, calls |-> <<>>]
NoNodeCall == [called |-> FALSE]

\* the world of the home file: a Background of strength 1 with nothing linked
DefaultWorld == [linked |-> FALSE, nodes |-> {}, strength |-> 1]

\* import_3d_model: one more object in the scene
ImportObject(obj) ==
    /\ Len(objects) < MaxObjects
    /\ objects' = Append(objects, obj)
    /\ bbox_call' = NoBBoxCall
    /\ sphere_call' = NoSphereCall
    /\ UNCHANGED <<sampler_vars, tool_vars, den, norm_call, norm_calls, uv_call>>

\* reset_scene: the home file without its default objects
ResetScene ==
    /\ objects # <<>>
    /\ objects' = <<>>
    /\ bbox_call' = NoBBoxCall
    /\ sphere_call' = NoSphereCall
    /\ den' = 1
    /\ UNCHANGED <<sampler_vars, tool_vars, norm_call, norm_calls, uv_call>>

\* a call of scene_bbox and what it gave
SceneBBox(single_obj, ignore_matrix) ==
    /\ bbox_call' = [called |-> TRUE, single_obj |-> single_obj,
                     ignore_matrix |-> ignore_matrix,
                     out |-> scene_bbox(single_obj, ignore_matrix)]
    /\ UNCHANGED <<objects, den, sphere_call, norm_call, norm_calls, uv_call, sampler_vars, tool_vars>>

----------------------------------------------------------------------------
(* Meshes with vertices, and scene_sphere.  The coordinates of a scene are  *)
(* integers counted in units of 1 / den (den = 1 until the scene is         *)
(* normalized).  A midpoint (a + b) / 2 is kept doubled, as a + b, and a     *)
(* length is kept as its square, so that no value is rounded.               *)

Zero3 == Vec(0, 0, 0)

\* the vertices of the meshes
VA == Vec(-1, -2, -2)
VB == Vec(1, 2, 2)

\* the own transform of an object: obj.scale and obj.location
Transforms ==
    { [scale |-> Vec(1, 1, 1), location |-> Zero3],
      [scale |-> Vec(2, 2, 2), location |-> Vec(1, 0, -7)],
      [scale |-> Vec(1, 1, 1), location |-> Vec(0, 4, 0)] }

RECURSIVE SeqMin(_)
SeqMin(l) == IF Len(l) = 1 THEN l[1] ELSE Min(l[1], SeqMin(Tail(l)))

RECURSIVE SeqMax(_)
SeqMax(l) == IF Len(l) = 1 THEN l[1] ELSE Max(l[1], SeqMax(Tail(l)))

\* the bound_box of a mesh spans its vertices; without vertices it is the
\* default box from -1 to 1
BoxOf(vertices, hi) ==
    IF vertices = <<>> THEN (IF hi THEN Vec(1, 1, 1) ELSE Vec(-1, -1, -1))
    ELSE [a \in Axes |->
             IF hi THEN SeqMax([k \in 1 .. Len(vertices) |-> vertices[k][a]])
             ELSE SeqMin([k \in 1 .. Len(vertices) |-> vertices[k][a]])]

\* the local matrix of an object: its scale on the diagonal, its location
Basis(obj) ==
    [m |-> <<Vec(obj.scale[1], 0, 0), Vec(0, obj.scale[2], 0), Vec(0, 0, obj.scale[3])>>,
     t |-> obj.location]

\* parent.matrix_world @ basis, in units of 1 / den
Compose(pw, b, d) ==
    [m |-> [r \in Axes |-> [c \in Axes |->
               (pw.m[r][1] * b.m[1][c] + pw.m[r][2] * b.m[2][c] + pw.m[r][3] * b.m[3][c]) \div d]],
     t |-> [r \in Axes |->
               (pw.m[r][1] * b.t[1] + pw.m[r][2] * b.t[2] + pw.m[r][3] * b.t[3]) \div d + pw.t[r]]]

\* an object of the scene: a mesh with its vertices or another kind of
\* object, under the parent in place p of the scene (0: a root object)
Placed(mesh, vertices, tr, p) ==
    LET own == [scale |-> [a \in Axes |-> den * tr.scale[a]],
                location |-> [a \in Axes |-> den * tr.location[a]]]
    IN [mesh |-> mesh, vertices |-> vertices,
        lo |-> BoxOf(vertices, FALSE), hi |-> BoxOf(vertices, TRUE),
        parent |-> p, scale |-> own.scale, location |-> own.location,
        matrix_world |-> IF p = 0 THEN Basis(own)
                         ELSE Compose(objects[p].matrix_world, Basis(own), den)]

\* get_center(l), doubled
get_center(l) == IF l # <<>> THEN SeqMax(l) + SeqMin(l) ELSE 0

\* the truth value of a mathutils.Vector that takes every zero vector for false
VectorTruth_NonZero(v) == \E a \in DOMAIN v : v[a] # 0

\* the truth value of a mathutils.Vector: the type has no __bool__, so it is
\* that of len(v) > 0
VectorTruth(v) == Len(v) > 0

\* the vertices of the considered objects, in world coordinates unless the
\* matrix is ignored
RECURSIVE PointsFrom(_, _, _)
PointsFrom(objs, ignore_matrix, k) ==
    IF k > Len(objs) THEN <<>>
    ELSE LET obj == objects[objs[k]]
         IN [v \in 1 .. Len(obj.vertices) |->
                IF ignore_matrix THEN [a \in Axes |-> den * obj.vertices[v][a]]
                ELSE MatMul(obj.matrix_world, obj.vertices[v])]
            \o PointsFrom(objs, ignore_matrix, k + 1)

\* a length that leaves the second coordinate out
LengthSq_XZ(v) == v[1] * v[1] + v[3] * v[3]

\* the square of v.length
LengthSq(v) == v[1] * v[1] + v[2] * v[2] + v[3] * v[3]

\* max() over vectors: a vector is greater when it is longer, and the first
\* of the longest is kept
RECURSIVE MaxVector(_, _, _)
MaxVector(vs, k, best) ==
    IF k > Len(vs) THEN best
    ELSE MaxVector(vs, k + 1, IF LengthSq(vs[k]) > LengthSq(best) THEN vs[k] ELSE best)

AttributeError == [raised |-> TRUE, error |-> "AttributeError"]
NoneValue == <<>>

\* x, y, z = [[point_co[i] for point_co in points_co_global] for i in range(3)]
AxisList(points, a) == [k \in 1 .. Len(points) |-> points[k][a]]

\* b_sphere_center, doubled, or None
SphereCenter(points) ==
    IF AxisList(points, 1) # <<>> /\ AxisList(points, 2) # <<>> /\ AxisList(points, 3) # <<>>
    THEN [a \in Axes |-> get_center(AxisList(points, a))]
    ELSE NoneValue

\* point - b_sphere_center for point in points_co_global, doubled
Differences(points, center) ==
    [k \in 1 .. Len(points) |-> [a \in Axes |-> 2 * points[k][a] - center[a]]]

LongestOf(vs) == MaxVector(vs, 2, vs[1])

\* b_sphere_radius, a vector, or None
SphereRadius(points, center) ==
    IF center # NoneValue /\ VectorTruth(center)
    THEN LongestOf(Differences(points, center))
    ELSE NoneValue

\* return b_sphere_center, b_sphere_radius.length
SphereReturn(center, radius) ==
    IF radius = NoneValue THEN AttributeError
    ELSE [raised |-> FALSE, center |-> center, radius |-> LengthSq(radius)]

SphereOver(points) ==
    SphereReturn(SphereCenter(points), SphereRadius(points, SphereCenter(points)))

\* scene_sphere(single_obj, ignore_matrix): twice the center and the square
\* of twice the radius, or the error raised
scene_sphere(single_obj, ignore_matrix) ==
    IF Len(Considered(single_obj)) = 0 THEN RuntimeError
    ELSE SphereOver(PointsFrom(Considered(single_obj), ignore_matrix, 1))

\* a call of scene_sphere and what it gave
SceneSphere(single_obj, ignore_matrix) ==
    /\ sphere_call' = [called |-> TRUE, single_obj |-> single_obj,
                       ignore_matrix |-> ignore_matrix,
                       out |-> scene_sphere(single_obj, ignore_matrix)]
    /\ UNCHANGED <<objects, den, bbox_call, norm_call, norm_calls, uv_call, sampler_vars, tool_vars>>

----------------------------------------------------------------------------
(* normalize_scene.  A fraction is a record [n, d] in lowest terms.  The     *)
(* scale and the offset it derives are fractions of the unit 1 / den, so the *)
(* call makes the unit finer: every coordinate of the scene is rewritten in  *)
(* the new unit, which leaves its value as it is.                            *)

Abs(x) == IF x < 0 THEN -x ELSE x

RECURSIVE GCD(_, _)
GCD(a, b) == IF b = 0 THEN Abs(a) ELSE GCD(Abs(b), Abs(a) % Abs(b))

Frac(n, d) ==
    LET g == GCD(n, d)
    IN IF d < 0 THEN [n |-> (-n) \div g, d |-> (-d) \div g]
       ELSE [n |-> n \div g, d |-> d \div g]

\* the arguments of normalize_scene: a scale or an offset that is not given
\* is None
NotGiven == [given |-> FALSE]
GivenScale == [given |-> TRUE, n |-> 2, d |-> 1]
GivenOffset == [given |-> TRUE, v |-> Vec(1, 0, -1)]
Half == Frac(1, 2)
One == Frac(1, 1)

\* the calls of normalize_scene that are made
NormArgs ==
    { [scale |-> NotGiven, offset |-> NotGiven, use_bounding_sphere |-> FALSE, target_scale |-> Half],
      [scale |-> NotGiven, offset |-> NotGiven, use_bounding_sphere |-> TRUE, target_scale |-> Half],
      [scale |-> NotGiven, offset |-> NotGiven, use_bounding_sphere |-> FALSE, target_scale |-> One],
      [scale |-> NotGiven, offset |-> GivenOffset, use_bounding_sphere |-> TRUE, target_scale |-> One],
      [scale |-> GivenScale, offset |-> NotGiven, use_bounding_sphere |-> TRUE, target_scale |-> Half],
      [scale |-> GivenScale, offset |-> GivenOffset, use_bounding_sphere |-> FALSE, target_scale |-> Half] }

MaxCalls == 2

\* the finest unit the model follows a scene to is 1 / MaxDen
MaxDen == 400

ZeroDivisionError == [raised |-> TRUE, error |-> "ZeroDivisionError"]

\* the least k in lo .. hi with k * k >= n: the square root of n when n is
\* a square
RECURSIVE Root(_, _, _)
Root(n, lo, hi) ==
    IF lo >= hi THEN lo
    ELSE LET mid == (lo + hi) \div 2
         IN IF mid * mid >= n THEN Root(n, lo, mid) ELSE Root(n, mid + 1, hi)

MaxRoot == 46340
Sqrt(n) == Root(n, 0, MaxRoot)

IsSquare(n) == Sqrt(n) * Sqrt(n) = n

\* the smallest component in place of the largest
MaxComponent_Min(v) == SeqMin(v)

\* max() over the components of a vector
MaxComponent(v) == SeqMax(v)

\* the local `scale` after the first if: the scale given, or target_scale over
\* the largest extent of the box or over the radius of the sphere, or the error
\* raised on the way
DerivedScale(scale, use_bounding_sphere, target_scale) ==
    IF scale.given THEN [raised |-> FALSE, n |-> scale.n, d |-> scale.d]
    ELSE IF use_bounding_sphere
    THEN LET sph == scene_sphere(NoObject, FALSE)
         IN IF sph.raised THEN sph
            ELSE IF sph.radius = 0 THEN ZeroDivisionError
            ELSE LET f == Frac(target_scale.n * 2 * den, target_scale.d * Sqrt(sph.radius))
                 IN [raised |-> FALSE, n |-> f.n, d |-> f.d]
    ELSE LET box == scene_bbox(NoObject, FALSE)
         IN IF box.raised THEN box
            ELSE LET span == MaxComponent([a \in Axes |-> box.max[a] - box.min[a]])
                 IN IF span = 0 THEN ZeroDivisionError
                    ELSE LET f == Frac(target_scale.n * den, target_scale.d * span)
                         IN [raised |-> FALSE, n |-> f.n, d |-> f.d]

\* the radius of the sphere is a number the model can write down
Exact(scale, use_bounding_sphere) ==
    (~scale.given /\ use_bounding_sphere) =>
        LET sph == scene_sphere(NoObject, FALSE)
        IN ~sph.raised => IsSquare(sph.radius)

\* the coordinates of an object rewritten in a unit f times finer
Finer(obj, f) ==
    [obj EXCEPT !.scale = [a \in Axes |-> f * @[a]],
                !.location = [a \in Axes |-> f * @[a]],
                !.matrix_world = [m |-> [r \in Axes |-> [c \in Axes |-> f * @.m[r][c]]],
                                  t |-> [r \in Axes |-> f * @.t[r]]]]

\* scene_root_objects(): the objects without a parent
IsRoot(obj) == obj.parent = 0

\* for obj in scene_root_objects(): obj.scale = obj.scale * scale, written
\* in the unit 1 / (den * scale.d)
ScaleRoots(objs, scale) ==
    [k \in 1 .. Len(objs) |->
        IF IsRoot(objs[k])
        THEN [Finer(objs[k], scale.d) EXCEPT !.scale = [a \in Axes |-> scale.n * objs[k].scale[a]]]
        ELSE Finer(objs[k], scale.d)]

\* the world matrix of object k from its own transform and its parents'
RECURSIVE World(_, _, _)
World(objs, d, k) ==
    IF IsRoot(objs[k]) THEN Basis(objs[k])
    ELSE Compose(World(objs, d, objs[k].parent), Basis(objs[k]), d)

\* bpy.context.view_layer.update()
Updated(objs, d) ==
    [k \in 1 .. Len(objs) |-> [objs[k] EXCEPT !.matrix_world = World(objs, d, k)]]

\* for obj in scene_root_objects(): obj.matrix_world.translation += offset,
\* which moves the location of a root object with it
MoveRoots(objs, offset) ==
    [k \in 1 .. Len(objs) |->
        IF IsRoot(objs[k])
        THEN [objs[k] EXCEPT !.matrix_world.t = [a \in Axes |-> @[a] + offset[a]],
                             !.location = [a \in Axes |-> @[a] + offset[a]]]
        ELSE objs[k]]

\* the numbers of a scene
RECURSIVE Numbers(_, _)
Numbers(objs, k) ==
    IF k > Len(objs) THEN <<>>
    ELSE objs[k].scale \o objs[k].location \o objs[k].matrix_world.t
         \o objs[k].matrix_world.m[1] \o objs[k].matrix_world.m[2]
         \o objs[k].matrix_world.m[3] \o Numbers(objs, k + 1)

RECURSIVE GCDSeq(_, _)
GCDSeq(l, g) == IF l = <<>> \/ g = 1 THEN g ELSE GCDSeq(Tail(l), GCD(g, Head(l)))

\* the coarsest unit in which the scene has whole coordinates
CoarsestUnit(objs, d) == GCDSeq(Numbers(objs, 1), d)

Coarser(objs, g) ==
    [k \in 1 .. Len(objs) |->
        [objs[k] EXCEPT !.scale = [a \in Axes |-> @[a] \div g],
                        !.location = [a \in Axes |-> @[a] \div g],
                        !.matrix_world = [m |-> [r \in Axes |-> [c \in Axes |-> @.m[r][c] \div g]],
                                          t |-> [r \in Axes |-> @.t[r] \div g]]]]

\* the scene scaled by s can be written in a unit the model follows
InUnit(s) == IF s.raised THEN TRUE ELSE den * s.d <= MaxDen

\* the scene written in the coarsest unit
Canonical(objs, d, g) == [objects |-> Coarser(objs, g), den |-> d \div g]

SetScene(scene) == objects' = scene.objects /\ den' = scene.den

\* the first half with the scale s that was derived
ScaleStep(call, s) ==
    IF s.raised
    THEN /\ norm_call' = call @@ [pc |-> "done", out |-> s]
         /\ UNCHANGED <<objects, den>>
    ELSE /\ norm_call' = call @@ [pc |-> "offset", local_scale |-> [n |-> s.n, d |-> s.d]]
         /\ SetScene(Canonical(Updated(ScaleRoots(objects, s), den * s.d), den * s.d,
                               CoarsestUnit(Updated(ScaleRoots(objects, s), den * s.d), den * s.d)))

\* normalize_scene up to view_layer.update(): the scale is derived and the
\* root objects are scaled
NormalizeScale(scale, offset, use_bounding_sphere, target_scale) ==
    /\ norm_call.pc = "done"
    /\ norm_calls < MaxCalls
    /\ Exact(scale, use_bounding_sphere)
    /\ InUnit(DerivedScale(scale, use_bounding_sphere, target_scale))
    /\ norm_calls' = norm_calls + 1
    /\ ScaleStep([called |-> TRUE, scale |-> scale, offset |-> offset,
                  use_bounding_sphere |-> use_bounding_sphere,
                  target_scale |-> target_scale],
                 DerivedScale(scale, use_bounding_sphere, target_scale))
    /\ UNCHANGED <<sampler_vars, tool_vars, bbox_call, sphere_call>>

\* the offset: the one given, or minus the center of the box, in units of
\* 1 / (den * f)
DerivedOffset(offset, box) ==
    IF offset.given THEN [a \in Axes |-> den * offset.v[a]]
    ELSE [a \in Axes |-> -(box.min[a] + box.max[a])]

MovedScene(off, f) ==
    MoveRoots([k \in 1 .. Len(objects) |-> Finer(objects[k], f)], off)

\* the second half with the offset off that was derived
OffsetStep(call, off, f) ==
    /\ norm_call' = call @@
          [pc |-> "done",
           out |-> [raised |-> FALSE, scale |-> norm_call.local_scale,
                    offset |-> [a \in Axes |-> Frac(off[a], den * f)]]]
    /\ SetScene(Canonical(MovedScene(off, f), den * f, CoarsestUnit(MovedScene(off, f), den * f)))

\* normalize_scene from the second if to the return: the offset is derived,
\* the root objects are moved, and (scale, offset) is returned
NormalizeOffset ==
    /\ norm_call.pc = "offset"
    /\ 2 * den <= MaxDen
    /\ IF ~norm_call.offset.given /\ scene_bbox(NoObject, FALSE).raised
       THEN /\ norm_call' = [c \in DOMAIN norm_call \ {"pc"} |-> norm_call[c]]
                               @@ [pc |-> "done", out |-> scene_bbox(NoObject, FALSE)]
            /\ UNCHANGED <<objects, den>>
       ELSE OffsetStep([c \in DOMAIN norm_call \ {"pc"} |-> norm_call[c]],
                       DerivedOffset(norm_call.offset, scene_bbox(NoObject, FALSE)),
                       IF norm_call.offset.given THEN 1 ELSE 2)
    /\ UNCHANGED <<sampler_vars, tool_vars, bbox_call, sphere_call, norm_calls>>

\* a call of normalize_scene by the user of the library
NormalizeScene(scale, offset, use_bounding_sphere, target_scale) ==
    /\ uv_call.pc = "done"
    /\ NormalizeScale(scale, offset, use_bounding_sphere, target_scale)
    /\ UNCHANGED uv_call

NormalizeSceneReturn ==
    /\ uv_call.pc = "done"
    /\ NormalizeOffset
    /\ UNCHANGED uv_call

----------------------------------------------------------------------------
(* look_at_to_c2w.  The numbers of numpy are modelled by fractions; NaN is   *)
(* the fraction with denominator 0, which every operation hands on.          *)

NaN == [n |-> 0, d |-> 0]

\* n / d: 0 / 0 is NaN (a vector is only ever divided by its own norm, so a
\* zero divisor meets a zero dividend)
Q(n, d) == IF d = 0 THEN NaN ELSE Frac(n, d)

QAdd(a, b) == Q(a.n * b.d + b.n * a.d, a.d * b.d)
QSub(a, b) == Q(a.n * b.d - b.n * a.d, a.d * b.d)
QMul(a, b) == Q(a.n * b.n, a.d * b.d)
QDiv(a, b) == Q(a.n * b.d, a.d * b.n)

\* np.array(v) of a vector of whole numbers
Array(v) == [a \in Axes |-> Q(v[a], 1)]

Dot(u, v) == QAdd(QAdd(QMul(u[1], v[1]), QMul(u[2], v[2])), QMul(u[3], v[3]))

\* np.linalg.norm(v), for a vector whose norm is a fraction
linalg_norm(v) ==
    IF Dot(v, v).d = 0 THEN NaN ELSE Q(Sqrt(Dot(v, v).n), Sqrt(Dot(v, v).d))

HasNorm(v) == Dot(v, v).d = 0 \/ (IsSquare(Dot(v, v).n) /\ IsSquare(Dot(v, v).d))

\* a vector kept as it is in place of v / np.linalg.norm(v)
normalized_not(v) == v

\* v / np.linalg.norm(v)
normalized(v) == [a \in Axes |-> QDiv(v[a], linalg_norm(v))]

\* np.cross(v, u)
cross_reversed(u, v) ==
    <<QSub(QMul(v[2], u[3]), QMul(v[3], u[2])),
      QSub(QMul(v[3], u[1]), QMul(v[1], u[3])),
      QSub(QMul(v[1], u[2]), QMul(v[2], u[1]))>>

\* np.cross(u, v)
cross(u, v) ==
    <<QSub(QMul(u[2], v[3]), QMul(u[3], v[2])),
      QSub(QMul(u[3], v[1]), QMul(u[1], v[3])),
      QSub(QMul(u[1], v[2]), QMul(u[2], v[1]))>>

Q0 == Q(0, 1)
Q1 == Q(1, 1)

\* rotation_transform: the rows right, up, direction
rotation_transform(camera_right, camera_up, camera_direction) ==
    <<camera_right \o <<Q0>>, camera_up \o <<Q0>>, camera_direction \o <<Q0>>,
      <<Q0, Q0, Q0, Q1>>>>

\* the translation to +camera_position
translation_transform_plus(camera_position) ==
    <<<<Q1, Q0, Q0, camera_position[1]>>,
      <<Q0, Q1, Q0, camera_position[2]>>,
      <<Q0, Q0, Q1, camera_position[3]>>,
      <<Q0, Q0, Q0, Q1>>>>

\* translation_transform: the identity with -camera_position in the last column
translation_transform(camera_position) ==
    <<<<Q1, Q0, Q0, QSub(Q0, camera_position[1])>>,
      <<Q0, Q1, Q0, QSub(Q0, camera_position[2])>>,
      <<Q0, Q0, Q1, QSub(Q0, camera_position[3])>>,
      <<Q0, Q0, Q0, Q1>>>>

\* np.matmul of two 4x4 matrices
matmul(A, B) ==
    [r \in 1 .. 4 |-> [c \in 1 .. 4 |->
        QAdd(QAdd(QMul(A[r][1], B[1][c]), QMul(A[r][2], B[2][c])),
             QAdd(QMul(A[r][3], B[3][c]), QMul(A[r][4], B[4][c])))]]

\* np.linalg.inv of a 4x4 matrix: the cofactors over the determinant
inv(M) ==
    LET Rest(k) == IF k = 1 THEN <<2, 3, 4>> ELSE IF k = 2 THEN <<1, 3, 4>>
                   ELSE IF k = 3 THEN <<1, 2, 4>> ELSE <<1, 2, 3>>
        E(r, c, a, b) == M[Rest(r)[a]][Rest(c)[b]]
        Minor(r, c) ==
            QAdd(QSub(QMul(E(r, c, 1, 1), QSub(QMul(E(r, c, 2, 2), E(r, c, 3, 3)),
                                               QMul(E(r, c, 2, 3), E(r, c, 3, 2)))),
                      QMul(E(r, c, 1, 2), QSub(QMul(E(r, c, 2, 1), E(r, c, 3, 3)),
                                               QMul(E(r, c, 2, 3), E(r, c, 3, 1))))),
                 QMul(E(r, c, 1, 3), QSub(QMul(E(r, c, 2, 1), E(r, c, 3, 2)),
                                          QMul(E(r, c, 2, 2), E(r, c, 3, 1)))))
        Cofactor(r, c) == IF (r + c) % 2 = 0 THEN Minor(r, c) ELSE QSub(Q0, Minor(r, c))
        Over(det) == [r \in 1 .. 4 |-> [c \in 1 .. 4 |-> QDiv(Cofactor(c, r), det)]]
    IN Over(QAdd(QAdd(QMul(M[1][1], Cofactor(1, 1)), QMul(M[1][2], Cofactor(1, 2))),
                 QAdd(QMul(M[1][3], Cofactor(1, 3)), QMul(M[1][4], Cofactor(1, 4)))))

\* look_at_to_c2w(camera_position, target_position, up_dir)
look_at_to_c2w(camera_position, target_position, up_dir) ==
    LET camera_direction ==
            normalized([a \in Axes |-> QSub(Array(camera_position)[a], Array(target_position)[a])])
        camera_right == normalized(cross(Array(up_dir), camera_direction))
        camera_up == normalized(cross(camera_direction, camera_right))
    IN inv(matmul(rotation_transform(camera_right, camera_up, camera_direction),
                  translation_transform(Array(camera_position))))

\* the norms that look_at_to_c2w takes are fractions
ExactNorms(camera_position, target_position, up_dir) ==
    LET d == [a \in Axes |-> Q(camera_position[a] - target_position[a], 1)]
    IN /\ HasNorm(d)
       /\ HasNorm(cross(Array(up_dir), normalized(d)))

HasNaN(M) == \E r \in 1 .. 4, c \in 1 .. 4 : M[r][c].d = 0

LinAlgError == [raised |-> TRUE, error |-> "LinAlgError"]

\* what np.linalg.inv gives for the matrix M it computed: a matrix with NaN
\* is returned as it is or refused as singular, as the LAPACK build has it
Returned(M, refuses) ==
    IF HasNaN(M) /\ refuses THEN LinAlgError ELSE [raised |-> FALSE, matrix |-> M]

\* the call of look_at_to_c2w on the arguments that were drawn, and what it gave
LookAt(refuses) ==
    /\ ~lookat_call.called
    /\ refuses => HasNaN(look_at_to_c2w(lookat_call.camera_position,
                                        lookat_call.target_position, lookat_call.up_dir))
    /\ lookat_call' = [lookat_call EXCEPT !.called = TRUE] @@
           [out |-> Returned(look_at_to_c2w(lookat_call.camera_position,
                                            lookat_call.target_position, lookat_call.up_dir),
                             refuses)]
    /\ UNCHANGED <<sampler_vars, scene_vars, data_objects, world, light_call, nodes, node_call,
                   run_vars>>

----------------------------------------------------------------------------
(* Lights.  data_objects is bpy.data.objects; world is the Background node   *)
(* of the scene's world with what is linked to it.                            *)

MaxLightCalls == 3

\* an object taken for a light by its name
IsLight_ByName(obj) == obj.name = "Light"

IsLight(obj) == obj.type = "LIGHT"

\* remove_all_lights(): the objects that are left
remove_all_lights(objs) ==
    LET Other(obj) == ~IsLight(obj) IN SelectSeq(objs, Other)

\* remove_all_lights(): the world after it.  The loop removes the node it is
\* at from the collection it iterates; the iterator of a bpy collection has
\* moved on to the next node by then, so every node is visited.  world.nodes
\* holds the nodes of the three types the loop removes.
WorldsAfterRemove ==
    { [linked |-> FALSE, nodes |-> {}, strength |-> world.strength] }

\* create_point_light, create_area_light, create_directional_light
CreateLight(creator, keep_other_lights) ==
    /\ Len(light_call.calls) < MaxLightCalls
    /\ \E w \in IF keep_other_lights THEN {world} ELSE WorldsAfterRemove :
           world' = IF creator = "create_point_light" THEN [w EXCEPT !.strength = 1] ELSE w
    /\ LET light_obj == [type |-> "LIGHT", name |-> creator, made |-> Len(light_call.calls) + 1]
       IN /\ data_objects' =
                 Append(IF keep_other_lights THEN data_objects
                        ELSE remove_all_lights(data_objects), light_obj)
          /\ light_call' = [called |-> TRUE, keep_other_lights |-> keep_other_lights,
                            out |-> light_obj,
                            calls |-> Append(light_call.calls, keep_other_lights)]
    /\ UNCHANGED <<sampler_vars, scene_vars, lookat_call, nodes, node_call, run_vars>>

----------------------------------------------------------------------------
(* Node lookup.  A name is a sequence of letters. *)

MaxNodes == 2

\* node_type is the beginning of the name
Contains_Prefix(node_type, bl_idname) ==
    /\ Len(node_type) <= Len(bl_idname)
    /\ SubSeq(bl_idname, 1, Len(node_type)) = node_type

\* node_type in node.bl_idname
Contains(node_type, bl_idname) ==
    \E k \in 0 .. Len(bl_idname) - Len(node_type) :
        SubSeq(bl_idname, k + 1, k + Len(node_type)) = node_type

NoTag == "no created_in_func"

get_nodes_created_in_func(nodelist, created_in_func) ==
    LET Tagged(node) == node.tag # NoTag /\ node.tag = created_in_func
    IN SelectSeq(nodelist, Tagged)

get_nodes_with_type(nodelist, node_type, created_in_func) ==
    LET OfType(node) == Contains(node_type, node.bl_idname)
    IN IF created_in_func # ""
       THEN get_nodes_created_in_func(SelectSeq(nodelist, OfType), created_in_func)
       ELSE SelectSeq(nodelist, OfType)

get_the_one_node_with_type(nodelist, node_type, created_in_func) ==
    LET OneOf(node) ==
            IF node # <<>> /\ Len(node) = 1 THEN [raised |-> FALSE, node |-> node[1]]
            ELSE [raised |-> TRUE, error |-> "RuntimeError"]
    IN OneOf(get_nodes_with_type(nodelist, node_type, created_in_func))

\* the call of get_the_one_node_with_type on the arguments that were drawn
GetTheOneNode ==
    /\ ~node_call.called
    /\ node_call' = [node_call EXCEPT !.called = TRUE] @@
           [out |-> get_the_one_node_with_type(nodes, node_call.node_type,
                                               node_call.created_in_func)]
    /\ UNCHANGED <<sampler_vars, scene_vars, lookat_call, data_objects, world, light_call, nodes,
                   run_vars>>

----------------------------------------------------------------------------
(* uv_unwrap *)

\* an object as import_3d_model puts it into the scene that was just reset
Imported(mesh, vertices, tr) ==
    [mesh |-> mesh, vertices |-> vertices,
     lo |-> BoxOf(vertices, FALSE), hi |-> BoxOf(vertices, TRUE),
     parent |-> 0, scale |-> tr.scale, location |-> tr.location,
     matrix_world |-> Basis(tr)]

\* the mesh files: their extension and the objects they hold
MeshFiles ==
    LET Here == [scale |-> Vec(1, 1, 1), location |-> Zero3]
        There == [scale |-> Vec(2, 2, 2), location |-> Vec(1, 0, -7)]
    IN { [ext |-> ".obj", objs |-> <<Imported(TRUE, <<VA, VB>>, Here)>>],
         [ext |-> ".glb", objs |-> <<Imported(TRUE, <<VA, VB>>, There),
                                     Imported(FALSE, <<>>, Here)>>],
         [ext |-> ".ply", objs |-> <<Imported(TRUE, <<VB>>, Here)>>],
         [ext |-> ".fbx", objs |-> <<Imported(TRUE, <<>>, Here)>>],
         [ext |-> ".stl", objs |-> <<Imported(TRUE, <<VA, VB>>, Here)>>] }

\* the extensions import_3d_model knows and the methods uv_unwrap knows
Importable == {".glb", ".obj", ".fbx", ".blend", ".ply"}
Methods == {"unwrap", "smart_project", "cube_project", "cylinder_project", "sphere_project"}

ValueError == [raised |-> TRUE, error |-> "ValueError"]

\* uv_unwrap up to the normalization: the scene is reset and the file imported
UvUnwrap(file, method, normalize) ==
    /\ uv_call.pc = "done" /\ norm_call.pc = "done"
    /\ den' = 1
    /\ bbox_call' = NoBBoxCall /\ sphere_call' = NoSphereCall
    /\ norm_call' = NoNormCall /\ norm_calls' = 0
    /\ IF file.ext \in Importable
       THEN /\ objects' = file.objs
            /\ uv_call' = [called |-> TRUE, ext |-> file.ext, method |-> method,
                           normalize |-> normalize,
                           pc |-> IF normalize THEN "normalize" ELSE "unwrap"]
       ELSE /\ objects' = <<>>
            /\ uv_call' = [called |-> TRUE, ext |-> file.ext, method |-> method,
                           normalize |-> normalize, pc |-> "done", out |-> ValueError]
    /\ UNCHANGED <<sampler_vars, tool_vars>>

\* where uv_unwrap is after a half of normalize_scene
UvAfter(call, next) ==
    IF call.pc = "done" /\ call.out.raised
    THEN [uv_call EXCEPT !.pc = "done"] @@ [out |-> call.out]
    ELSE [uv_call EXCEPT !.pc = next]

\* normalize_scene(use_bounding_sphere=True), first half
UvNormalize ==
    /\ uv_call.pc = "normalize"
    /\ NormalizeScale(NotGiven, NotGiven, TRUE, Half)
    /\ uv_call' = UvAfter(norm_call', "offset")

\* normalize_scene(use_bounding_sphere=True), second half
UvNormalizeReturn ==
    /\ uv_call.pc = "offset"
    /\ NormalizeOffset
    /\ uv_call' = UvAfter(norm_call', "unwrap")

\* uv_unwrap from the choice of the method to the return
UvReturn ==
    /\ uv_call.pc = "unwrap"
    /\ uv_call' = [uv_call EXCEPT !.pc = "done"] @@
          [out |-> IF uv_call.method \in Methods THEN [raised |-> FALSE, value |-> TRUE]
                   ELSE ValueError]
    /\ UNCHANGED <<sampler_vars, tool_vars, objects, den, bbox_call, sphere_call,
                   norm_call, norm_calls>>

----------------------------------------------------------------------------
(* Cameras.  They are objects of bpy.data.objects, as the lights are. *)

NoCameraCall == [called |-> FALSE, calls |-> 0]

\* what the three creators do to the objects: the object that is named
\* "Camera" is selected and deleted, and a new camera is linked; the name
\* "Camera" is free by then, so the new object gets it
create_camera(objs, made) ==
    LET Other(obj) == obj.name # "Camera"
    IN Append(SelectSeq(objs, Other), [type |-> "CAMERA", name |-> "Camera", made |-> made])

\* create_camera, create_camera_look_at_origin, create_camera_look_at_object
CreateCamera(creator) ==
    /\ camera_call.calls < MaxCalls
    /\ data_objects' = create_camera(data_objects, camera_call.calls + 1)
    /\ camera_call' = [called |-> TRUE, creator |-> creator, calls |-> camera_call.calls + 1,
                       out |-> data_objects'[Len(data_objects')]]
    /\ UNCHANGED <<sampler_vars, scene_vars, lookat_call, world, light_call, nodes, node_call,
                   stdio, script, tree, passes, comp_call>>

----------------------------------------------------------------------------
(* stdout_redirected.  stdio holds the descriptor table (what each open     *)
(* descriptor writes to), sys.stdout, the blocks that were entered and not  *)
(* yet left, and the last thing that happened.                              *)

MaxDepth == 3

\* the descriptors: 0, 1 and 2, one per block, and one for the file being opened
Fds == 0 .. MaxDepth + 3

\* the interpreter at its start: sys.stdout is on descriptor 1 and does not own it
StdioStart ==
    [fds |-> [n \in Fds |-> IF n <= 2 THEN "terminal" ELSE "closed"],
     sys_stdout |-> [fd |-> 1, closefd |-> FALSE],
     blocks |-> <<>>,
     last |-> [op |-> "start"]]

\* os.dup and open take the lowest descriptor that is free
Lowest(fds) ==
    CHOOSE n \in Fds : fds[n] = "closed" /\ \A m \in 0 .. n - 1 : fds[m] # "closed"

\* the paths that open(to, 'w') can open
Writable == {"devnull", "a.log", "b.log"}

\* _redirect_stdout without its os.dup2
redirect_stdout_close(s, fd, to_fd) ==
    LET closed == IF s.sys_stdout.closefd THEN [s.fds EXCEPT ![s.sys_stdout.fd] = "closed"]
                  ELSE s.fds
    IN [s EXCEPT !.fds = closed, !.sys_stdout = [fd |-> fd, closefd |-> TRUE]]

\* _redirect_stdout(_to), where _to is open on to_fd: sys.stdout is closed,
\* to_fd is duplicated onto fd, and sys.stdout is opened anew on fd
redirect_stdout(s, fd, to_fd) ==
    LET closed == IF s.sys_stdout.closefd THEN [s.fds EXCEPT ![s.sys_stdout.fd] = "closed"]
                  ELSE s.fds
    IN [s EXCEPT !.fds = [closed EXCEPT ![fd] = closed[to_fd]],
                 !.sys_stdout = [fd |-> fd, closefd |-> TRUE]]

\* stdout_redirected(to) up to its yield.  before is what fd wrote to when
\* the block was entered; the code does not keep it, the properties read it.
Entered(s, to) ==
    LET fd == s.sys_stdout.fd
        old_stdout == Lowest(s.fds)
        dup == [s EXCEPT !.fds[old_stdout] = s.fds[fd]]
        file == Lowest(dup.fds)
    IN IF to \notin Writable
       THEN [s EXCEPT !.last = [op |-> "enter", raised |-> TRUE]]
       ELSE [redirect_stdout([dup EXCEPT !.fds[file] = to], fd, file) EXCEPT
                !.fds[file] = "closed",
                !.blocks = Append(@, [fd |-> fd, old_stdout |-> old_stdout, to |-> to,
                                      before |-> s.fds[fd]]),
                !.last = [op |-> "enter", raised |-> FALSE]]

\* stdout_redirected from its yield on: the finally clause and the end of
\* the with statement of old_stdout, whether the body raised or not
Exited(s, raised) ==
    LET block == s.blocks[Len(s.blocks)]
    IN [redirect_stdout(s, block.fd, block.old_stdout) EXCEPT
           !.fds[block.old_stdout] = "closed",
           !.blocks = SubSeq(s.blocks, 1, Len(s.blocks) - 1),
           !.last = [op |-> "exit", raised |-> raised, block |-> block]]

Enter(to) ==
    /\ Len(stdio.blocks) < MaxDepth
    /\ stdio' = Entered(stdio, to)
    /\ UNCHANGED <<sampler_vars, scene_vars, lib_vars, script, camera_call, tree, passes,
                   comp_call>>

\* the body writes: to descriptor 1 as other programs do, or with print
Write(by_print) ==
    /\ stdio' = [stdio EXCEPT !.last =
                    [op |-> "write", by_print |-> by_print,
                     dest |-> IF by_print THEN stdio.fds[stdio.sys_stdout.fd]
                              ELSE stdio.fds[1]]]
    /\ UNCHANGED <<sampler_vars, scene_vars, lib_vars, script, camera_call, tree, passes,
                   comp_call>>

Exit(raised) ==
    /\ stdio.blocks # <<>>
    /\ stdio' = Exited(stdio, raised)
    /\ UNCHANGED <<sampler_vars, scene_vars, lib_vars, script, camera_call, tree, passes,
                   comp_call>>

----------------------------------------------------------------------------
(* render_blender_scene_random_pl of render_y_up.py.  It runs on the main   *)
(* thread and calls the sampler twice, then renders frame after frame.      *)

MaxSplit == 1

NoScript == [pc |-> "idle"]

IndexError == [raised |-> TRUE, error |-> "IndexError"]

\* the call up to the first call of the sampler: nothing is rendered yet
RenderBlenderScene(N_train, N_val, N_test, fix_light) ==
    /\ script.pc = "idle" /\ pc[MainThread] = "idle"
    /\ script' = [pc |-> "eyes", Ns |-> <<N_train, N_val, N_test>>, fix_light |-> fix_light,
                  eyes |-> <<>>, pls |-> <<>>, js |-> <<<<>>, <<>>, <<>>>>,
                  offset |-> 0, d |-> 1, i |-> 0, out |-> [raised |-> FALSE]]
    /\ min_dist_to_origin' = 4 /\ max_dist_to_origin' = 8
    /\ min_theta_in_degree' = 60 /\ max_theta_in_degree' = 90
    /\ UNCHANGED <<scene_vars, lib_vars, stdio, camera_call, tree, passes, comp_call,
                   gstate, pc, seed, N, z_up, i, phi, theta, ret, entry, prev>>

\* the two calls of gen_random_pts_around_origin, with seed_view and seed_pl
Sample ==
    LET total == script.Ns[1] + script.Ns[2] + script.Ns[3]
    IN \/ script.pc = "eyes" /\ Call(MainThread, 0, total, FALSE)
       \/ script.pc = "pls" /\ Call(MainThread, 1, total, FALSE)
       \/ /\ script.pc \in {"eyes", "pls"}
          /\ \/ DrawPhi(MainThread) \/ DrawTheta(MainThread) \/ Redraw(MainThread)
             \/ AppendPt(MainThread) \/ Return(MainThread)

\* eyes = ..., then pls = ...: the list the sampler returned is taken
TakePoints ==
    /\ script.pc \in {"eyes", "pls"} /\ pc[MainThread] = "done"
    /\ script' = IF script.pc = "eyes"
                 THEN [script EXCEPT !.eyes = ret[MainThread], !.pc = "pls"]
                 ELSE [script EXCEPT !.pls = ret[MainThread], !.pc = "frames"]
    /\ min_dist_to_origin' = 4 /\ max_dist_to_origin' = 8
    /\ min_theta_in_degree' = 0 /\ max_theta_in_degree' = 60
    /\ pc' = [pc EXCEPT ![MainThread] = "idle"]
    /\ seed' = [seed EXCEPT ![MainThread] = None]
    /\ N' = [N EXCEPT ![MainThread] = 0]
    /\ z_up' = [z_up EXCEPT ![MainThread] = TRUE]
    /\ ret' = [ret EXCEPT ![MainThread] = <<>>]
    /\ entry' = [entry EXCEPT ![MainThread] = 0]
    /\ UNCHANGED <<scene_vars, lib_vars, stdio, camera_call, tree, passes, comp_call,
                   gstate, i, phi, theta, prev>>

\* one turn of the inner loop: the camera and the light of frame i of split
\* d are made from eyes[i + offset] and pls[i + offset], the frame is
\* rendered with stdout redirected and is noted in js[d].  Sequences start
\* at 1, so list index k is place k + 1.
Frame ==
    /\ script.pc = "frames" /\ script.i < script.Ns[script.d]
    /\ LET index == script.i + script.offset
           made == Len(script.js[1]) + Len(script.js[2]) + Len(script.js[3]) + 1
           with_camera == create_camera(data_objects, made)
           pl == [type |-> "LIGHT", name |-> "create_point_light", made |-> made]
       IN IF index >= Len(script.eyes)
          THEN /\ script' = [script EXCEPT !.pc = "done", !.out = IndexError]
               /\ UNCHANGED <<data_objects, world, stdio>>
          ELSE /\ data_objects' = IF script.fix_light THEN with_camera
                                  ELSE Append(remove_all_lights(with_camera), pl)
               /\ IF script.fix_light THEN world' = world
                  ELSE \E w \in WorldsAfterRemove : world' = [w EXCEPT !.strength = 1]
               /\ stdio' = Exited(Entered(stdio, "devnull"), FALSE)
               /\ script' = [script EXCEPT
                     !.i = @ + 1,
                     !.js[script.d] = Append(@, [file_path |-> <<script.d, script.i>>,
                                                 index |-> index,
                                                 eye |-> script.eyes[index + 1],
                                                 pl_pos |-> script.pls[index + 1]])]
    /\ UNCHANGED <<sampler_vars, scene_vars, lookat_call, light_call, nodes, node_call,
                   camera_call, tree, passes, comp_call>>

\* the end of the inner loop with offset left where it was
EndSplit_SameOffset ==
    /\ script.pc = "frames" /\ script.i >= script.Ns[script.d]
    /\ script' = [script EXCEPT !.i = 0,
                                !.d = IF @ < 3 THEN @ + 1 ELSE @,
                                !.pc = IF script.d < 3 THEN "frames" ELSE "done"]
    /\ UNCHANGED <<sampler_vars, scene_vars, lib_vars, stdio, camera_call, tree, passes,
                   comp_call>>

\* the end of the inner loop: the split is written and offset moves on
EndSplit ==
    /\ script.pc = "frames" /\ script.i >= script.Ns[script.d]
    /\ script' = [script EXCEPT !.offset = @ + script.Ns[script.d], !.i = 0,
                                !.d = IF @ < 3 THEN @ + 1 ELSE @,
                                !.pc = IF script.d < 3 THEN "frames" ELSE "done"]
    /\ UNCHANGED <<sampler_vars, scene_vars, lib_vars, stdio, camera_call, tree, passes,
                   comp_call>>

----------------------------------------------------------------------------
(* The compositor.  tree is scene.node_tree with scene.use_nodes: its nodes *)
(* in the order of tree.nodes and its links.  A node is known by the call   *)
(* that made it and the variable that held it; a bl_idname is the sequence  *)
(* of its words and a name is a base with the number Blender appends to     *)
(* keep the names of a tree apart.  passes are the use_pass_ flags of the   *)
(* view layer and its denoising_store_passes.                               *)

NoCompCall == [called |-> FALSE, calls |-> 0, fn |-> "none"]

NoPasses ==
    [use_pass_z |-> FALSE, use_pass_normal |-> FALSE,
     use_pass_diffuse_direct |-> FALSE, use_pass_diffuse_indirect |-> FALSE,
     use_pass_diffuse_color |-> FALSE, use_pass_glossy_direct |-> FALSE,
     use_pass_glossy_indirect |-> FALSE, use_pass_glossy_color |-> FALSE,
     denoising_store_passes |-> FALSE]

\* what tree.nodes.new is asked for: the type, the name and the variable
Asked(words, name, var) == [bl_idname |-> <<"CompositorNode", words>>, name |-> name, var |-> var]

Link(from, out, to, in) == [from |-> from, out |-> out, to |-> to, in |-> in]

\* the tree Blender makes when use_nodes is first set
DefaultTree ==
    [use_nodes |-> FALSE,
     nodes |-> <<Asked("RLayers", <<"Render Layers", 0>>, "render_layers") @@ [made |-> 0],
                 Asked("Composite", <<"Composite", 0>>, "composite") @@ [made |-> 0]>>,
     links |-> {Link(<<0, "render_layers">>, "Image", <<0, "composite">>, "Image")}]

\* tree.nodes.new for each of news, in order, with node.name = ... where the
\* code sets it: a name that is taken gets the first number that is free
RECURSIVE NewNodes(_, _, _)
NewNodes(nodelist, news, made) ==
    IF news = <<>> THEN nodelist
    ELSE LET base == news[1].name
             free == CHOOSE n \in 0 .. Len(nodelist) :
                        /\ \A k \in 1 .. Len(nodelist) : nodelist[k].name # <<base, n>>
                        /\ \A m \in 0 .. n - 1 :
                               \E k \in 1 .. Len(nodelist) : nodelist[k].name = <<base, m>>
         IN NewNodes(Append(nodelist, [news[1] EXCEPT !.name = <<base, free>>] @@ [made |-> made]),
                     Tail(news), made)

\* tree.nodes.remove(node): the node goes and its links go with it
RemoveNode(t, id) ==
    LET Other(node) == <<node.made, node.var>> # id
    IN [t EXCEPT !.nodes = SelectSeq(t.nodes, Other),
                 !.links = {l \in t.links : l.from # id /\ l.to # id}]

\* the loop that clears the tree, skipped
Cleared_Not(t) == t

\* for node in tree.nodes: tree.nodes.remove(node).  The iterator has moved
\* on when the node it gave is removed, so every node is visited.
Cleared(t) == [t EXCEPT !.nodes = <<>>, !.links = {}]

\* the nodes create_compositing_nodes makes, in the order it makes them
Created(f) ==
    <<Asked("RLayers", "Render Layers", "render_layer_node"),
      Asked("Composite", "Composite", "composite_output"),
      Asked("OutputFile", "BPYHelperRGBOutput", "rgb_output")>>
    \o (IF f.enable_depth
        THEN <<Asked("OutputFile", "BPYHelperDepthOutput", "depth_output")>> ELSE <<>>)
    \o (IF f.enable_normal
        THEN <<Asked("SepRGBA", "Separate RGBA", "separate_rgba"),
               Asked("MapRange", "Map Range", "map_range_0"),
               Asked("MapRange", "Map Range", "map_range_1"),
               Asked("MapRange", "Map Range", "map_range_2"),
               Asked("CombRGBA", "Combine RGBA", "combine_rgba"),
               Asked("OutputFile", "BPYHelperNormalOutput", "normal_output")>> ELSE <<>>)
    \o (IF f.enable_diffuse
        THEN <<Asked("OutputFile", "BPYHelperDiffuseOutput", "diffuse_output"),
               [Asked("VectorMath", "Vector Math", "diffuse_vecter_add")
                   EXCEPT !.bl_idname = <<"ShaderNode", "VectorMath">>],
               [Asked("VectorMath", "Vector Math", "diffuse_vector_multiply")
                   EXCEPT !.bl_idname = <<"ShaderNode", "VectorMath">>]>>
             \o (IF f.use_denoising
                 THEN <<Asked("Denoise", "Denoise", "diffuse_denoising")>> ELSE <<>>)
        ELSE <<>>)
    \o (IF f.enable_glossy
        THEN <<Asked("OutputFile", "BPYHelperGlossyOutput", "glossy_output"),
               [Asked("VectorMath", "Vector Math", "glossy_vecter_add")
                   EXCEPT !.bl_idname = <<"ShaderNode", "VectorMath">>],
               [Asked("VectorMath", "Vector Math", "glossy_vector_multiply")
                   EXCEPT !.bl_idname = <<"ShaderNode", "VectorMath">>]>>
             \o (IF f.use_denoising
                 THEN <<Asked("Denoise", "Denoise", "glossy_denoising")>> ELSE <<>>)
        ELSE <<>>)
    \o (IF f.enable_albedo
        THEN <<Asked("OutputFile", "BPYHelperAlbedoOutput", "albedo_output")>> ELSE <<>>)

\* the links.new calls of create_compositing_nodes, between the nodes of call made
Wired(f, made) ==
    LET L(from, out, to, in) == Link(<<made, from>>, out, <<made, to>>, in)
        Shaded(pass, Dir, Ind, Col) ==
            {L("render_layer_node", Dir, pass \o "_vecter_add", "0"),
             L("render_layer_node", Ind, pass \o "_vecter_add", "1"),
             L(pass \o "_vecter_add", "0", pass \o "_vector_multiply", "0"),
             L("render_layer_node", Col, pass \o "_vector_multiply", "1")}
            \cup (IF f.use_denoising
                  THEN {L(pass \o "_vector_multiply", "0", pass \o "_denoising", "Image"),
                        L("render_layer_node", "Denoising Albedo", pass \o "_denoising", "Albedo"),
                        L("render_layer_node", "Denoising Normal", pass \o "_denoising", "Normal"),
                        L(pass \o "_denoising", "Image", pass \o "_output", "Image")}
                  ELSE {L(pass \o "_vector_multiply", "0", pass \o "_output", "Image")})
    IN {L("render_layer_node", "Image", "composite_output", "Image"),
        L("render_layer_node", "Image", "rgb_output", "Image")}
       \cup (IF f.enable_depth
             THEN {L("render_layer_node", "Depth", "depth_output", "Image")} ELSE {})
       \cup (IF f.enable_normal
             THEN {L("render_layer_node", "Normal", "separate_rgba", "Image"),
                   L("separate_rgba", "0", "map_range_0", "Value"),
                   L("separate_rgba", "1", "map_range_1", "Value"),
                   L("separate_rgba", "2", "map_range_2", "Value"),
                   L("map_range_0", "Value", "combine_rgba", "0"),
                   L("map_range_1", "Value", "combine_rgba", "1"),
                   L("map_range_2", "Value", "combine_rgba", "2"),
                   L("combine_rgba", "Image", "normal_output", "Image")} ELSE {})
       \cup (IF f.enable_diffuse THEN Shaded("diffuse", "DiffDir", "DiffInd", "DiffCol") ELSE {})
       \cup (IF f.enable_glossy THEN Shaded("glossy", "GlossDir", "GlossInd", "GlossCol") ELSE {})
       \cup (IF f.enable_albedo
             THEN {L("render_layer_node", "DiffCol", "albedo_output", "Image")} ELSE {})

\* the flags of the view layer that create_compositing_nodes assigns; each
\* assignment is of True
PassesSet(p, f) ==
    [p EXCEPT
       !.use_pass_z = IF f.enable_depth THEN TRUE ELSE @,
       !.use_pass_normal = IF f.enable_normal THEN TRUE ELSE @,
       !.use_pass_diffuse_direct = IF f.enable_diffuse THEN TRUE ELSE @,
       !.use_pass_diffuse_indirect = IF f.enable_diffuse THEN TRUE ELSE @,
       !.use_pass_diffuse_color = IF f.enable_diffuse \/ f.enable_albedo THEN TRUE ELSE @,
       !.use_pass_glossy_direct = IF f.enable_glossy THEN TRUE ELSE @,
       !.use_pass_glossy_indirect = IF f.enable_glossy THEN TRUE ELSE @,
       !.use_pass_glossy_color = IF f.enable_glossy THEN TRUE ELSE @,
       !.denoising_store_passes =
           IF (f.enable_diffuse \/ f.enable_glossy) /\ f.use_denoising THEN TRUE ELSE @]

\* create_compositing_nodes(enable_depth, ..., use_denoising), f its arguments
CreateCompositingNodes(f) ==
    /\ comp_call.calls < MaxCalls
    /\ tree' = [Cleared(tree) EXCEPT
                   !.use_nodes = TRUE,
                   !.nodes = NewNodes(Cleared(tree).nodes, Created(f), comp_call.calls + 1),
                   !.links = Cleared(tree).links \cup Wired(f, comp_call.calls + 1)]
    /\ passes' = PassesSet(passes, f)
    /\ comp_call' = [called |-> TRUE, calls |-> comp_call.calls + 1,
                     fn |-> "create_compositing_nodes", flags |-> f, out |-> [raised |-> FALSE]]
    /\ UNCHANGED <<sampler_vars, scene_vars, lib_vars, stdio, script, camera_call>>

\* what render_depth_map and render_normal_map share: use_nodes is set, the
\* one render layer node is looked up, and the pass is rendered through the
\* nodes news, made and wired by the call, of which output_file is removed
\* afterwards; then use_nodes and the pass are set to False
RenderMap(fn, pass, news, wires) ==
    /\ comp_call.calls < MaxCalls
    /\ LET made == comp_call.calls + 1
           one == get_the_one_node_with_type(tree.nodes, <<"CompositorNode", "RLayers">>, "")
       IN IF one.raised
          THEN /\ tree' = [tree EXCEPT !.use_nodes = TRUE]
               /\ passes' = passes
               /\ comp_call' = [called |-> TRUE, calls |-> made, fn |-> fn, out |-> one]
          ELSE /\ tree' =
                    [RemoveNode([tree EXCEPT
                                    !.nodes = NewNodes(tree.nodes, news, made),
                                    !.links = tree.links \cup
                                        {Link(IF w[1] = "render_layer_node"
                                              THEN <<one.node.made, one.node.var>>
                                              ELSE <<made, w[1]>>, w[2], <<made, w[3]>>, w[4]) :
                                            w \in wires}],
                                <<made, "output_file">>)
                        EXCEPT !.use_nodes = FALSE]
               /\ passes' = [passes EXCEPT ![pass] = FALSE]
               /\ comp_call' = [called |-> TRUE, calls |-> made, fn |-> fn,
                                out |-> [raised |-> FALSE]]
    /\ UNCHANGED <<sampler_vars, scene_vars, lib_vars, stdio, script, camera_call>>

RenderDepthMap ==
    RenderMap("render_depth_map", "use_pass_z",
              <<Asked("OutputFile", "File Output", "output_file")>>,
              {<<"render_layer_node", "Depth", "output_file", "Image">>})

RenderNormalMap ==
    RenderMap("render_normal_map", "use_pass_normal",
              <<Asked("SepRGBA", "Separate RGBA", "separate_rgba"),
                Asked("CombRGBA", "Combine RGBA", "combine_rgba"),
                Asked("MapRange", "Map Range", "map_range_0"),
                Asked("MapRange", "Map Range", "map_range_1"),
                Asked("MapRange", "Map Range", "map_range_2"),
                Asked("OutputFile", "File Output", "output_file")>>,
              {<<"render_layer_node", "Normal", "separate_rgba", "Image">>,
               <<"separate_rgba", "0", "map_range_0", "Value">>,
               <<"map_range_0", "Value", "combine_rgba", "0">>,
               <<"separate_rgba", "1", "map_range_1", "Value">>,
               <<"map_range_1", "Value", "combine_rgba", "1">>,
               <<"separate_rgba", "2", "map_range_2", "Value">>,
               <<"map_range_2", "Value", "combine_rgba", "2">>,
               <<"combine_rgba", "Image", "output_file", "Image">>})

----------------------------------------------------------------------------
(* Specifications *)

\* the scene right after reset_scene, before any call
SceneStart ==
    /\ objects = <<>>
    /\ bbox_call = NoBBoxCall
    /\ den = 1
    /\ sphere_call = NoSphereCall
    /\ norm_call = NoNormCall
    /\ norm_calls = 0
    /\ uv_call = NoUvCall

\* nothing was redirected, rendered or composed yet
RunStart ==
    /\ stdio = StdioStart
    /\ script = NoScript
    /\ camera_call = NoCameraCall
    /\ tree = DefaultTree
    /\ passes = NoPasses
    /\ comp_call = NoCompCall

\* no light, no node and no call of the other helpers yet
ToolStart ==
    /\ lookat_call = NoLookAtCall
    /\ data_objects = <<>>
    /\ world = DefaultWorld
    /\ light_call = NoLightCall
    /\ nodes = <<>>
    /\ node_call = NoNodeCall
    /\ RunStart

\* no call of the sampler is running
SamplerIdle ==
    /\ pc = [t \in Threads |-> "idle"]
    /\ seed = [t \in Threads |-> None]
    /\ N = [t \in Threads |-> 0]
    /\ z_up = [t \in Threads |-> TRUE]
    /\ i = [t \in Threads |-> 0]
    /\ phi = [t \in Threads |-> 0]
    /\ theta = [t \in Threads |-> 0]
    /\ ret = [t \in Threads |-> <<>>]
    /\ entry = [t \in Threads |-> 0]
    /\ prev = NoCall

\* the sampler is not used: its generator and its arguments stay as they are
SamplerUnused ==
    /\ SamplerIdle
    /\ gstate = 0
    /\ min_dist_to_origin = 0 /\ max_dist_to_origin = 0
    /\ min_theta_in_degree = 0 /\ max_theta_in_degree = 0

Init ==
    /\ gstate \in 0 .. RandMod - 1
    /\ min_dist_to_origin \in Radii
    /\ max_dist_to_origin \in Radii
    /\ min_theta_in_degree \in Degrees
    /\ max_theta_in_degree \in Degrees
    /\ SamplerIdle
    /\ SceneStart
    /\ ToolStart

Step(t, seeds, maxn) ==
    \/ \E sd \in seeds, n \in 0 .. maxn, zu \in BOOLEAN : Call(t, sd, n, zu)
    \/ DrawPhi(t)
    \/ DrawTheta(t)
    \/ Redraw(t)
    \/ AppendPt(t)
    \/ Return(t)

\* one caller, one call at a time
Next ==
    \/ Step(MainThread, Seeds, MaxN)
    \/ Keep(MainThread)
    \/ Drop(MainThread)

Spec == Init /\ [][Next]_vars

\* the steps of a call that is under way
Run(t) == DrawPhi(t) \/ DrawTheta(t) \/ Redraw(t) \/ AppendPt(t) \/ Return(t)

\* a call that is under way keeps being scheduled
\* and the caller compares no lists
LiveNext ==
    \/ Step(MainThread, Seeds, MaxN)
    \/ Drop(MainThread)

LiveSpec == Init /\ [][LiveNext]_vars /\ WF_vars(Run(MainThread))

\* two threads, one seeded call each
ConcNext == \E t \in Threads : Step(t, Seeds \ {None}, ConcMaxN)

\* the threads run with arguments that satisfy the documented preconditions
ConcInit ==
    /\ Init
    /\ 0 <= min_dist_to_origin /\ min_dist_to_origin <= max_dist_to_origin
    /\ 0 <= min_theta_in_degree /\ min_theta_in_degree <= max_theta_in_degree
    /\ max_theta_in_degree <= 180
    /\ min_dist_to_origin < max_dist_to_origin
    /\ min_theta_in_degree < max_theta_in_degree
    /\ gstate = RandomSeed(0)

ConcSpec == ConcInit /\ [][ConcNext]_vars

\* the scene: objects come and go and bounding boxes are asked for
SceneInit == SamplerUnused /\ SceneStart /\ ToolStart

SceneNext ==
    \/ \E obj \in SceneObjects : ImportObject(obj)
    \/ ResetScene
    \/ \E single_obj \in 0 .. Len(objects), ignore_matrix \in BOOLEAN :
           SceneBBox(single_obj, ignore_matrix)

SceneSpec == SceneInit /\ [][SceneNext]_vars

\* meshes with vertices: bounding spheres and bounding boxes are asked for
SphereNext ==
    \/ \E vs \in {<<VB>>, <<VA, VB>>}, tr \in Transforms : ImportObject(Placed(TRUE, vs, tr, 0))
    \/ \E vs \in {<<>>, <<VB, VB>>} :
           ImportObject(Placed(TRUE, vs, [scale |-> Vec(1, 1, 1), location |-> Zero3], 0))
    \/ ImportObject(Placed(FALSE, <<>>, [scale |-> Vec(1, 1, 1), location |-> Zero3], 0))
    \/ ResetScene
    \/ \E single_obj \in {NoObject} \cup {k \in 1 .. Len(objects) : objects[k].mesh},
          ignore_matrix \in BOOLEAN : SceneSphere(single_obj, ignore_matrix)
    \/ \E single_obj \in 0 .. Len(objects) : SceneBBox(single_obj, FALSE)

SphereSpec == SceneInit /\ [][SphereNext]_vars

\* a scene of meshes and other objects, some under a parent, is normalized
NormNext ==
    \/ /\ norm_calls = 0
       /\ \E tr \in Transforms : ImportObject(Placed(TRUE, <<VA, VB>>, tr, 0))
    \/ /\ norm_calls = 0
       /\ ImportObject(Placed(TRUE, <<VB>>, [scale |-> Vec(1, 1, 1), location |-> Zero3], 0))
    \/ /\ norm_calls = 0
       /\ \E p \in 1 .. Len(objects) :
              ImportObject(Placed(TRUE, <<VA, VB>>, [scale |-> Vec(1, 1, 1), location |-> Vec(0, 4, 0)], p))
    \/ /\ norm_calls = 0
       /\ ImportObject(Placed(FALSE, <<>>, [scale |-> Vec(1, 1, 1), location |-> Zero3], 0))
    \/ \E a \in NormArgs :
           NormalizeScene(a.scale, a.offset, a.use_bounding_sphere, a.target_scale)
    \/ NormalizeSceneReturn

NormSpec == SceneInit /\ [][NormNext]_vars

\* a camera is aimed from a position at a target
LookAtInit ==
    /\ SamplerUnused /\ SceneStart
    /\ data_objects = <<>> /\ world = DefaultWorld /\ light_call = NoLightCall
    /\ nodes = <<>> /\ node_call = NoNodeCall /\ RunStart
    /\ LET Positions == {Vec(0, 0, 0), Vec(0, 0, 5), Vec(3, 4, 0), Vec(0, 3, 4),
                         Vec(4, 0, 3), Vec(0, -5, 0), Vec(6, 8, 0), Vec(0, 0, -5)}
           UpDirs == {Vec(0, 0, 1), Vec(0, 1, 0), Vec(1, 0, 0), Vec(0, 0, -2),
                      Vec(0, 0, 0), Vec(3, 4, 0)}
       IN lookat_call \in [called : {FALSE}, camera_position : Positions,
                           target_position : Positions, up_dir : UpDirs]
    /\ ExactNorms(lookat_call.camera_position, lookat_call.target_position, lookat_call.up_dir)

LookAtNext == \E refuses \in BOOLEAN : LookAt(refuses)

LookAtSpec == LookAtInit /\ [][LookAtNext]_vars

\* lights are made, with and without keeping the others
LightInit ==
    /\ SamplerUnused /\ SceneStart
    /\ lookat_call = NoLookAtCall /\ nodes = <<>> /\ node_call = NoNodeCall
    /\ light_call = NoLightCall /\ RunStart
    /\ LET Obj(type, name) == [type |-> type, name |-> name, made |-> 0]
       IN data_objects \in
              { <<>>,
                <<Obj("MESH", "Cube"), Obj("LIGHT", "Light"), Obj("CAMERA", "Camera")>>,
                <<Obj("LIGHT", "Light"), Obj("LIGHT", "Light.001")>> }
    /\ world \in {DefaultWorld,
                  [linked |-> TRUE, strength |-> 1,
                   nodes |-> {"TEX_ENVIRONMENT", "TEX_COORD", "MAPPING"}]}

LightNext ==
    \E creator \in {"create_point_light", "create_area_light", "create_directional_light"},
       keep_other_lights \in BOOLEAN :
        CreateLight(creator, keep_other_lights)

LightSpec == LightInit /\ [][LightNext]_vars

\* the one node of a type is looked up in a list of nodes
NodeInit ==
    /\ SamplerUnused /\ SceneStart
    /\ lookat_call = NoLookAtCall /\ data_objects = <<>> /\ world = DefaultWorld
    /\ light_call = NoLightCall /\ RunStart
    /\ LET Names == {<<"a">>, <<"a", "b">>, <<"b", "a">>}
           Tags == {NoTag, "f", "g"}
       IN nodes \in UNION { [1 .. n -> [bl_idname : Names, tag : Tags]] :
                              n \in 0 .. MaxNodes }
    /\ node_call \in [called : {FALSE}, created_in_func : {"", "f", "g"},
                      node_type : {<<>>, <<"a">>, <<"b">>, <<"a", "b">>}]

NodeSpec == NodeInit /\ [][GetTheOneNode]_vars

\* mesh files are unwrapped
UvNext ==
    \/ \E file \in MeshFiles, method \in Methods \cup {"lscm"},
          normalize \in BOOLEAN : UvUnwrap(file, method, normalize)
    \/ UvNormalize
    \/ UvNormalizeReturn
    \/ UvReturn

UvSpec == SceneInit /\ [][UvNext]_vars

\* blocks of stdout_redirected are entered, written in and left
StdioNext ==
    \/ \E to \in Writable \cup {"missing/c.log"} : Enter(to)
    \/ \E by_print \in BOOLEAN : Write(by_print)
    \/ \E raised \in BOOLEAN : Exit(raised)

StdioSpec == SceneInit /\ [][StdioNext]_vars

\* the data sets of several sizes are rendered
ScriptNext ==
    \/ \E N_train, N_val, N_test \in 0 .. MaxSplit, fix_light \in BOOLEAN :
           RenderBlenderScene(N_train, N_val, N_test, fix_light)
    \/ Sample
    \/ TakePoints
    \/ Frame
    \/ EndSplit

ScriptSpec == SceneInit /\ [][ScriptNext]_vars

\* compositor trees are built and passes are rendered, from the tree of a
\* new scene and from one with a second render layer node
CompInit ==
    /\ SamplerUnused /\ SceneStart
    /\ lookat_call = NoLookAtCall /\ data_objects = <<>> /\ world = DefaultWorld
    /\ light_call = NoLightCall /\ nodes = <<>> /\ node_call = NoNodeCall
    /\ stdio = StdioStart /\ script = NoScript /\ camera_call = NoCameraCall
    /\ passes = NoPasses /\ comp_call = NoCompCall
    /\ tree \in {DefaultTree,
                 [DefaultTree EXCEPT !.nodes =
                     NewNodes(@, <<Asked("RLayers", "Render Layers", "second_layer")>>, 0)]}

CompNext ==
    \/ \E f \in [enable_depth : BOOLEAN, enable_normal : BOOLEAN, enable_diffuse : BOOLEAN,
                  enable_glossy : BOOLEAN, enable_albedo : BOOLEAN, use_denoising : BOOLEAN] :
           /\ f.enable_glossy => f.enable_diffuse
           /\ f.enable_albedo => f.enable_depth
           /\ CreateCompositingNodes(f)
    \/ RenderDepthMap
    \/ RenderNormalMap

CompSpec == CompInit /\ [][CompNext]_vars

\* cameras and point lights are made in the scenes of several files
CameraInit ==
    /\ SamplerUnused /\ SceneStart /\ RunStart
    /\ lookat_call = NoLookAtCall /\ nodes = <<>> /\ node_call = NoNodeCall
    /\ light_call = NoLightCall /\ world = DefaultWorld
    /\ LET Obj(type, name) == [type |-> type, name |-> name, made |-> 0]
           Files == { <<>>,
                      <<Obj("MESH", "Cube"), Obj("LIGHT", "Light"), Obj("CAMERA", "Camera")>>,
                      <<Obj("CAMERA", "Camera"), Obj("CAMERA", "Camera.001")>>,
                      <<Obj("CAMERA", "TopView"), Obj("MESH", "Cube")>>,
                      <<Obj("MESH", "Camera")>>,
                      <<Obj("MESH", "Cube"), Obj("EMPTY", "Target")>> }
       IN data_objects \in Files

CameraNext ==
    \/ \E creator \in {"create_camera", "create_camera_look_at_origin",
                       "create_camera_look_at_object"} : CreateCamera(creator)
    \/ \E keep_other_lights \in BOOLEAN : CreateLight("create_point_light", keep_other_lights)

CameraSpec == CameraInit /\ [][CameraNext]_vars

----------------------------------------------------------------------------
(* Properties of the sampler *)

Seeded(t) == seed[t] # None
Done(t) == pc[t] = "done"

ValidRadii == 0 <= min_dist_to_origin /\ min_dist_to_origin <= max_dist_to_origin
ValidBand ==
    /\ 0 <= min_theta_in_degree
    /\ min_theta_in_degree <= max_theta_in_degree
    /\ max_theta_in_degree <= 180
InvalidRange == ~ValidRadii \/ ~ValidBand

\* the square of the distance of pt to the origin
NormSq(pt) == Add(Add(Mul(pt[1], pt[1]), Mul(pt[2], pt[2])), Mul(pt[3], pt[3]))

\* the distance of pt to the origin, as the integer n with n / FP the distance
Norm(pt) == CHOOSE n \in 0 .. FP * FP * 4 : n * n = FP * NormSq(pt).r

\* min_dist <= |pt| <= max_dist, for bounds that are not negative
InShell(pt) ==
    /\ NormSq(pt).s = 0
    /\ Mul(Rat(min_dist_to_origin), Rat(min_dist_to_origin)).r <= NormSq(pt).r
    /\ NormSq(pt).r <= Mul(Rat(max_dist_to_origin), Rat(max_dist_to_origin)).r

\* the angle between pt and the up axis lies in [min_theta, max_theta]:
\* cos(max_theta) <= up / |pt| <= cos(min_theta); the origin has no angle
PolarInBand(pt, zu) ==
    LET up == IF zu THEN pt[3] ELSE pt[2]
    IN /\ Norm(pt) > 0
       /\ up.s = 0
       /\ Mul(cos(max_theta_in_degree), Num(Norm(pt), 0)).r <= up.r
       /\ up.r <= Mul(cos(min_theta_in_degree), Num(Norm(pt), 0)).r

IsOrigin(pt) == pt = <<Num(0, 0), Num(0, 0), Num(0, 0)>>

\* the point opposite pt
Mirror(pt) == [k \in 1 .. 3 |-> Sub(Num(0, 0), pt[k])]

\* pt with its Y and Z components exchanged
ExchangeYZ(pt) == <<pt[1], pt[3], pt[2]>>
ExchangeAll(pts) == [k \in 1 .. Len(pts) |-> ExchangeYZ(pts[k])]

\* the kept list came from a call with the seed of the call that has returned
SameSeedAsKept == Done(MainThread) /\ Seeded(MainThread) /\ prev.seed = seed[MainThread]

\* C1: a seeded call returns the list an earlier call with the same seed, N and
\* z_up returned, whatever was called in between
C1_Determinism ==
    (SameSeedAsKept /\ prev.N = N[MainThread] /\ prev.z_up = z_up[MainThread])
        => ret[MainThread] = prev.ret

C1_Witness ==
    /\ SameSeedAsKept /\ prev.N = N[MainThread] /\ prev.z_up = z_up[MainThread]
    /\ N[MainThread] >= 1
    /\ ret[MainThread] = prev.ret
    /\ entry[MainThread] # SeedGenerator(seed[MainThread], entry[MainThread])

\* C2: a seeded call that ran in a thread next to another thread's call has
\* returned the list it returns when it runs alone
C2_ThreadsIndependent ==
    \A t \in Threads :
        (Done(t) /\ Seeded(t)) => ret[t] = GenPts(RandomSeed(seed[t]), N[t], z_up[t])

\* C3: with an invalid radius range or polar band no call gets past its
\* entry: it draws nothing, appends nothing and returns nothing
C3_InvalidRangeRejected ==
    InvalidRange => \A t \in Threads : pc[t] \in {"idle", "for"} /\ ret[t] = <<>> /\ ~Done(t)

\* C4: with 0 <= min_dist <= max_dist every point of the list lies at a
\* distance in [min_dist, max_dist] from the origin, for either up axis
C4_RadiusBound ==
    ValidRadii => \A k \in 1 .. Len(ret[MainThread]) : InShell(ret[MainThread][k])

C4_Witness ==
    /\ ValidRadii /\ min_dist_to_origin < max_dist_to_origin
    /\ Done(MainThread) /\ N[MainThread] >= 1 /\ ~z_up[MainThread]
    /\ \E k \in 1 .. Len(ret[MainThread]) :
           NormSq(ret[MainThread][k]).r \notin
               {Mul(Rat(min_dist_to_origin), Rat(min_dist_to_origin)).r,
                Mul(Rat(max_dist_to_origin), Rat(max_dist_to_origin)).r}

\* C5 as stated: with a valid band every point of the list has its polar
\* angle, from the up axis, in [min_theta, max_theta]
C5_PolarBandAllPoints ==
    ValidBand => \A k \in 1 .. Len(ret[MainThread]) :
                     PolarInBand(ret[MainThread][k], z_up[MainThread])

\* C5 amended: with a valid band every point of the list other than the
\* origin has its polar angle in [min_theta, max_theta] when neither radius
\* bound is negative; when one is, the point or its mirror image through the
\* origin has
C5_PolarBand ==
    ValidBand =>
        \A k \in 1 .. Len(ret[MainThread]) :
            \/ IsOrigin(ret[MainThread][k])
            \/ PolarInBand(ret[MainThread][k], z_up[MainThread])
            \/ /\ min_dist_to_origin < 0 \/ max_dist_to_origin < 0
               /\ PolarInBand(Mirror(ret[MainThread][k]), z_up[MainThread])

C5_Witness ==
    /\ ValidBand /\ ValidRadii
    /\ Len(prev.ret) >= 1 /\ IsOrigin(prev.ret[1])
    /\ min_theta_in_degree = 0 /\ max_theta_in_degree = 60
    /\ Done(MainThread) /\ N[MainThread] >= 1 /\ ~z_up[MainThread]
    /\ \E k \in 1 .. Len(ret[MainThread]) : ~IsOrigin(ret[MainThread][k])

\* C6: for one seed and N, the list of a z_up=False call is the list of the
\* z_up=True call with Y and Z exchanged in every point, and exchanging again
\* gives the z_up=True list back
C6_AxisSwap ==
    (SameSeedAsKept /\ prev.N = N[MainThread] /\ prev.z_up # z_up[MainThread])
        => /\ ret[MainThread] = ExchangeAll(prev.ret)
           /\ ExchangeAll(ret[MainThread]) = prev.ret

C6_Witness ==
    /\ SameSeedAsKept /\ prev.N = N[MainThread]
    /\ prev.z_up /\ ~z_up[MainThread]
    /\ N[MainThread] >= 1
    /\ ret[MainThread] # prev.ret

\* C7: a call returns exactly N points, and for one seed and z_up the list
\* for the smaller N is a prefix of the list for the larger N
C7_CountAndPrefix ==
    /\ Done(MainThread) => Len(ret[MainThread]) = N[MainThread]
    /\ (SameSeedAsKept /\ prev.z_up = z_up[MainThread]) =>
           IF prev.N <= N[MainThread]
           THEN SubSeq(ret[MainThread], 1, prev.N) = prev.ret
           ELSE SubSeq(prev.ret, 1, N[MainThread]) = ret[MainThread]

C7_Witness ==
    /\ SameSeedAsKept /\ prev.z_up = z_up[MainThread]
    /\ prev.N >= 1 /\ prev.N < N[MainThread]
    /\ ret[MainThread][1] # ret[MainThread][N[MainThread]]

\* a band with something between its bounds
StrictBand ==
    /\ 0 <= min_theta_in_degree
    /\ min_theta_in_degree < max_theta_in_degree
    /\ max_theta_in_degree <= 180

InBand(th) == min_theta_in_degree <= th /\ th <= max_theta_in_degree

\* again and again the generator's next draw gives a polar angle in the band
GeneratorFair == []<>InBand(acos(RandomValue(gstate)))

Running(t) == pc[t] \in {"for", "theta", "while"}

\* the steps a call has left when the rejection loop never rejects
Rank(t) ==
    CASE pc[t] = "for" -> 3 * (N[t] - i[t]) + 1
      [] pc[t] = "theta" -> 3 * (N[t] - i[t])
      [] pc[t] = "while" -> 3 * (N[t] - i[t]) - 1
      [] OTHER -> 0

\* C8: with a band min_theta < max_theta and a generator that keeps yielding
\* polar draws inside the band, a call that is under way returns; and every
\* step of a call but the redraw of the rejection loop brings the return nearer
C8_Terminates ==
    /\ (StrictBand /\ GeneratorFair) => (Running(MainThread) ~> Done(MainThread))
    /\ [][(Run(MainThread) /\ ~Redraw(MainThread)) =>
              (Rank(MainThread)' < Rank(MainThread) /\ Rank(MainThread)' >= 0)]_vars

C8_Witness ==
    /\ StrictBand
    /\ Done(MainThread) /\ N[MainThread] >= 1
    /\ min_theta_in_degree = 0 /\ max_theta_in_degree = 60

\* C9: when a call has returned, the process-wide generator is in the state
\* it was in when the call was made
C9_GeneratorUntouched ==
    Done(MainThread) => gstate = entry[MainThread]

----------------------------------------------------------------------------
(* Properties of the scene bounds *)

\* the objects a call considers: every mesh of the scene, or the one given
ConsideredSet(single_obj) ==
    IF single_obj = NoObject THEN {k \in 1 .. Len(objects) : objects[k].mesh}
    ELSE {single_obj}

\* the points a call is about: the 8 corners of each considered object, in
\* world coordinates unless the matrix is ignored
InputPoints(single_obj, ignore_matrix) ==
    { IF ignore_matrix THEN bound_box(objects[k])[c]
      ELSE MatMul(objects[k].matrix_world, bound_box(objects[k])[c]) :
          k \in ConsideredSet(single_obj), c \in 1 .. 8 }

CallPoints == InputPoints(bbox_call.single_obj, bbox_call.ignore_matrix)

\* C10: over a non-empty set of points scene_bbox returns (min, max) with
\* min <= p <= max on each axis for every point p, and on each axis some
\* point has the min and some point has the max
C10_BoundingBox ==
    (bbox_call.called /\ CallPoints # {}) =>
        /\ ~bbox_call.out.raised
        /\ \A p \in CallPoints : \A a \in Axes :
               bbox_call.out.min[a] <= p[a] /\ p[a] <= bbox_call.out.max[a]
        /\ \A a \in Axes :
               /\ \E p \in CallPoints : p[a] = bbox_call.out.min[a]
               /\ \E p \in CallPoints : p[a] = bbox_call.out.max[a]

C10_Witness ==
    /\ bbox_call.called /\ ~bbox_call.ignore_matrix /\ bbox_call.single_obj = NoObject
    /\ Cardinality(ConsideredSet(NoObject)) = 2
    /\ objects[1].matrix_world # objects[2].matrix_world
    /\ ~bbox_call.out.raised
    /\ \A a \in Axes : bbox_call.out.min[a] < bbox_call.out.max[a]
    /\ \E a \in Axes : bbox_call.out.max[a] < 0

----------------------------------------------------------------------------
(* Properties of the bounding sphere *)

\* the vertices a call of scene_sphere is about, each with the object and the
\* place it has in the mesh, in world coordinates unless the matrix is ignored
SphereVertices ==
    { <<k, v>> \in (1 .. Len(objects)) \X (1 .. 2) :
          k \in ConsideredSet(sphere_call.single_obj) /\ v <= Len(objects[k].vertices) }

PointAt(kv) ==
    LET obj == objects[kv[1]]
    IN [a \in Axes |->
           IF sphere_call.ignore_matrix THEN den * obj.vertices[kv[2]][a]
           ELSE obj.matrix_world.m[a][1] * obj.vertices[kv[2]][1]
                + obj.matrix_world.m[a][2] * obj.vertices[kv[2]][2]
                + obj.matrix_world.m[a][3] * obj.vertices[kv[2]][3]
                + obj.matrix_world.t[a]]

SpherePoints == {PointAt(kv) : kv \in SphereVertices}

AxisLow(a) == CHOOSE m \in {p[a] : p \in SpherePoints} : \A p \in SpherePoints : m <= p[a]
AxisHigh(a) == CHOOSE m \in {p[a] : p \in SpherePoints} : \A p \in SpherePoints : p[a] <= m

\* the square of twice the distance from point p to the point whose double is c
DistSq(p, c) ==
    (2 * p[1] - c[1]) * (2 * p[1] - c[1]) + (2 * p[2] - c[2]) * (2 * p[2] - c[2])
    + (2 * p[3] - c[3]) * (2 * p[3] - c[3])

SphereReturned == sphere_call.called /\ ~sphere_call.out.raised

\* C11: over a non-empty set of vertices scene_sphere returns the center
\* (min + max) / 2 of each axis and as radius the largest distance from that
\* center to a vertex, so every vertex is within the radius of the center;
\* also when the center is the origin
C11_BoundingSphere ==
    (sphere_call.called /\ SpherePoints # {}) =>
        /\ ~sphere_call.out.raised
        /\ \A a \in Axes : sphere_call.out.center[a] = AxisLow(a) + AxisHigh(a)
        /\ \E p \in SpherePoints : DistSq(p, sphere_call.out.center) = sphere_call.out.radius
        /\ \A p \in SpherePoints : DistSq(p, sphere_call.out.center) <= sphere_call.out.radius

C11_Witness ==
    /\ SphereReturned
    /\ Cardinality(SpherePoints) >= 2
    /\ sphere_call.out.center = Zero3
    /\ sphere_call.out.radius > 0

\* C12: a bounding box or a bounding sphere asked for over zero points fails
\* with the RuntimeError 'no objects in scene to compute bounding ... for',
\* whether there is no mesh object or the meshes have no vertex
C12_EmptyInputRejected ==
    /\ (bbox_call.called /\ ConsideredSet(bbox_call.single_obj) = {}) =>
           bbox_call.out = RuntimeError
    /\ (sphere_call.called /\ SpherePoints = {}) => sphere_call.out = RuntimeError

\* C13 as stated: the radius is >= 0, it is 0 only when the input is a single
\* point, and it is > 0 for every input of two or more points
C13_ZeroRadiusSinglePoint ==
    SphereReturned =>
        /\ sphere_call.out.radius >= 0
        /\ sphere_call.out.radius = 0 => Cardinality(SphereVertices) = 1
        /\ Cardinality(SphereVertices) >= 2 => sphere_call.out.radius > 0

\* C13: the radius is >= 0, and it is 0 exactly when all the input points are
\* at one place; an input with two points at different places has radius > 0
C13_ZeroRadius ==
    SphereReturned =>
        /\ sphere_call.out.radius >= 0
        /\ sphere_call.out.radius = 0 <=> Cardinality(SpherePoints) = 1

C13_Witness ==
    /\ SphereReturned
    /\ Cardinality(SphereVertices) >= 2
    /\ Cardinality(SpherePoints) = 1
    /\ sphere_call.out.radius = 0

----------------------------------------------------------------------------
(* Properties of normalize_scene *)

\* the corners of the bound boxes of the meshes and the vertices of the
\* meshes, in world coordinates
MeshCorners == InputPoints(NoObject, FALSE)

MeshVertices ==
    { [a \in Axes |->
          objects[k].matrix_world.m[a][1] * objects[k].vertices[v][1]
          + objects[k].matrix_world.m[a][2] * objects[k].vertices[v][2]
          + objects[k].matrix_world.m[a][3] * objects[k].vertices[v][3]
          + objects[k].matrix_world.t[a]] :
      <<k, v>> \in {kv \in (1 .. Len(objects)) \X (1 .. 2) :
                       objects[kv[1]].mesh /\ kv[2] <= Len(objects[kv[1]].vertices)} }

Low(S, a) == CHOOSE m \in {p[a] : p \in S} : \A p \in S : m <= p[a]
High(S, a) == CHOOSE m \in {p[a] : p \in S} : \A p \in S : p[a] <= m

\* the largest axis extent of the box around the meshes, in units of 1 / den
LargestExtent ==
    CHOOSE e \in {High(MeshCorners, a) - Low(MeshCorners, a) : a \in Axes} :
        \A a \in Axes : High(MeshCorners, a) - Low(MeshCorners, a) <= e

\* the square of twice the radius of the sphere around the vertices
RadiusSq ==
    LET c == [a \in Axes |-> Low(MeshVertices, a) + High(MeshVertices, a)]
    IN CHOOSE r \in {DistSq(p, c) : p \in MeshVertices} :
           \A p \in MeshVertices : DistSq(p, c) <= r

\* every root object has its scale multiplied by f in the step, and no other
\* object has its scale changed
ScaleApplied(f) ==
    \A k \in 1 .. Len(objects) : \A a \in Axes :
        IF objects[k].parent = 0
        THEN objects'[k].scale[a] * den * f.d = objects[k].scale[a] * f.n * den'
        ELSE objects'[k].scale[a] * den = objects[k].scale[a] * den'

\* a call of normalize_scene starts: its first half is done in this step
CallStarts == norm_call.pc = "done" /\ norm_calls' = norm_calls + 1

C14_Derived ==
    CallStarts =>
        LET c == norm_call'
        IN IF c.scale.given
           THEN /\ c.pc = "offset"
                /\ c.local_scale = [n |-> c.scale.n, d |-> c.scale.d]
                /\ ScaleApplied(c.local_scale)
           ELSE c.pc = "offset" =>
                /\ ScaleApplied(c.local_scale)
                /\ c.local_scale.d > 0
                /\ IF c.use_bounding_sphere
                   THEN /\ IsSquare(RadiusSq)
                        /\ c.local_scale.n * c.target_scale.d * Sqrt(RadiusSq)
                               = 2 * den * c.target_scale.n * c.local_scale.d
                   ELSE c.local_scale.n * c.target_scale.d * LargestExtent
                           = den * c.target_scale.n * c.local_scale.d

NormReturned == norm_call.called /\ norm_call.pc = "done" /\ ~norm_call.out.raised

\* C14: with scale=None normalize_scene applies to the root objects and
\* returns target_scale / span, span being the largest axis extent of
\* scene_bbox() or, with use_bounding_sphere, the radius of scene_sphere();
\* a scale that is passed in is applied and returned as it is, whatever the
\* bounds are
C14_ScaleDerivation ==
    /\ [][C14_Derived]_vars
    /\ [](NormReturned => norm_call.out.scale = norm_call.local_scale)

C14_Witness ==
    /\ NormReturned
    /\ ~norm_call.scale.given /\ norm_call.use_bounding_sphere
    /\ norm_call.out.scale = Frac(1, 6)
    /\ \E k \in 1 .. Len(objects) : objects[k].parent # 0

\* a call with scale=None, offset=None and use_bounding_sphere=False
DefaultCall(c) == c.called /\ ~c.scale.given /\ ~c.offset.given /\ ~c.use_bounding_sphere

AllMeshesRoot == \A k \in 1 .. Len(objects) : objects[k].mesh => objects[k].parent = 0

\* the box around the meshes is centred at the origin and its largest
\* extent is t
NormalizedTo(t) ==
    /\ \A a \in Axes : Low(MeshCorners, a) + High(MeshCorners, a) = 0
    /\ LargestExtent * t.d = den * t.n

\* after such a call has returned the scene is normalized
C27_AfterCall ==
    (NormReturned /\ DefaultCall(norm_call) /\ AllMeshesRoot) =>
        NormalizedTo(norm_call.target_scale)

\* a second identical call derives the scale 1 and leaves the objects alone
C27_SecondCall ==
    (NormReturned /\ DefaultCall(norm_call) /\ AllMeshesRoot /\ CallStarts
       /\ DefaultCall(norm_call') /\ norm_call'.target_scale = norm_call.target_scale) =>
        /\ norm_call'.pc = "offset"
        /\ norm_call'.local_scale = [n |-> 1, d |-> 1]
        /\ objects' = objects /\ den' = den

\* C27: after normalize_scene() with scale=None, offset=None and
\* use_bounding_sphere=False, on a scene whose meshes are all root objects
\* and whose box has an extent, the box around the scene is centred at the
\* origin and its largest extent is target_scale; a second identical call
\* returns the scale 1 and changes nothing
C27_NormalizePostcondition == [](C27_AfterCall) /\ [][C27_SecondCall]_vars

----------------------------------------------------------------------------
(* Properties of look_at_to_c2w *)

\* the arguments of the call: from eye to target, with up
Eye == lookat_call.camera_position
Target == lookat_call.target_position
Up == lookat_call.up_dir

\* up is parallel or anti-parallel to eye - target, or zero
UpParallel ==
    /\ Up[2] * (Eye[3] - Target[3]) = Up[3] * (Eye[2] - Target[2])
    /\ Up[3] * (Eye[1] - Target[1]) = Up[1] * (Eye[3] - Target[3])
    /\ Up[1] * (Eye[2] - Target[2]) = Up[2] * (Eye[1] - Target[1])

ValidLookAt == lookat_call.called /\ Eye # Target /\ ~UpParallel

Whole(x) == [n |-> x, d |-> 1]

\* C15: for eye # target and up not parallel to eye - target, the translation
\* column of the matrix returned is eye
C15_TranslationIsEye ==
    ValidLookAt =>
        /\ ~lookat_call.out.raised
        /\ \A a \in Axes : lookat_call.out.matrix[a][4] = Whole(Eye[a])

C15_Witness ==
    /\ ValidLookAt
    /\ Eye = Vec(0, 0, 5) /\ Target = Vec(0, 0, 0) /\ Up = Vec(0, 1, 0)
    /\ lookat_call.out.matrix[3][4] = Whole(5)

\* the product of column i and column j, and of row i and row j, of the
\* upper-left 3x3 block of M
ColumnProduct(M, j, k) ==
    QAdd(QAdd(QMul(M[1][j], M[1][k]), QMul(M[2][j], M[2][k])), QMul(M[3][j], M[3][k]))

RowProduct(M, j, k) ==
    QAdd(QAdd(QMul(M[j][1], M[k][1]), QMul(M[j][2], M[k][2])), QMul(M[j][3], M[k][3]))

\* C16: the upper-left 3x3 block of the matrix returned is orthonormal and
\* its bottom row is [0, 0, 0, 1]
C16_Orthonormal ==
    ValidLookAt =>
        /\ ~lookat_call.out.raised
        /\ \A j \in Axes, k \in Axes :
               /\ ColumnProduct(lookat_call.out.matrix, j, k) = Whole(IF j = k THEN 1 ELSE 0)
               /\ RowProduct(lookat_call.out.matrix, j, k) = Whole(IF j = k THEN 1 ELSE 0)
        /\ lookat_call.out.matrix[4] = <<Whole(0), Whole(0), Whole(0), Whole(1)>>

C16_Witness ==
    /\ ValidLookAt
    /\ ~lookat_call.out.raised
    /\ \E r \in Axes, c \in Axes : lookat_call.out.matrix[r][c].d > 1
    /\ Up # Vec(0, 0, 1)

\* C17: eye = target is refused with DegenerateDirection and an up that is
\* parallel to eye - target, or zero, with DegenerateUp; no matrix is returned
C17_DegenerateRejected ==
    (lookat_call.called /\ ~ValidLookAt) =>
        IF lookat_call.out.raised
        THEN lookat_call.out.error = (IF Eye = Target THEN "DegenerateDirection" ELSE "DegenerateUp")
        ELSE FALSE

\* the cross product and the length of vectors of whole numbers
WholeCross(u, v) ==
    <<u[2] * v[3] - u[3] * v[2], u[3] * v[1] - u[1] * v[3], u[1] * v[2] - u[2] * v[1]>>

WholeLength(v) == Sqrt(v[1] * v[1] + v[2] * v[2] + v[3] * v[3])

\* eye - target, up x (eye - target) and (eye - target) x that: forward,
\* right and the true up before they are normalized
Forward == [a \in Axes |-> Eye[a] - Target[a]]
Right == WholeCross(Up, Forward)
TrueUp == WholeCross(Forward, Right)

\* C23: for valid (eye, target, up) the third column of the rotation block
\* of the matrix returned is normalize(eye - target), the first column is
\* normalize(cross(up, forward)) and the second is cross(forward, right)
C23_LookAtDirection ==
    ValidLookAt =>
        /\ ~lookat_call.out.raised
        /\ \A a \in Axes :
               LET M == lookat_call.out.matrix
               IN /\ QMul(M[a][3], Whole(WholeLength(Forward))) = Whole(Forward[a])
                  /\ QMul(M[a][1], Whole(WholeLength(Right))) = Whole(Right[a])
                  /\ QMul(M[a][2], Whole(WholeLength(Forward) * WholeLength(Right)))
                         = Whole(TrueUp[a])

\* a camera off the axes that looks at a target away from the origin
C23_Witness ==
    /\ ValidLookAt /\ ~lookat_call.out.raised
    /\ Eye = Vec(6, 8, 0) /\ Target = Vec(3, 4, 0) /\ Up = Vec(0, 1, 0)
    /\ lookat_call.out.matrix[1][3] = [n |-> 3, d |-> 5]
    /\ lookat_call.out.matrix[3][1] = Whole(-1)

----------------------------------------------------------------------------
(* Properties of the lights and of the node lookup *)

\* the objects of type LIGHT
LightObjects ==
    {data_objects[k] : k \in {j \in 1 .. Len(data_objects) : data_objects[j].type = "LIGHT"}}

LightCount == Cardinality({k \in 1 .. Len(data_objects) : data_objects[k].type = "LIGHT"})

\* the creation calls with keep_other_lights=False, by their place among the calls
Replacing == {k \in 1 .. Len(light_call.calls) : ~light_call.calls[k]}

\* a creation call returns in this step
LightMade == light_call'.calls # light_call.calls

C18_EachCall ==
    LightMade =>
        /\ light_call'.out \notin LightObjects
        /\ IF light_call'.keep_other_lights
           THEN LightObjects' = LightObjects \cup {light_call'.out}
           ELSE LightObjects' = {light_call'.out}

\* C18: a creation call with keep_other_lights=False leaves the new light as
\* the only LIGHT object, one with keep_other_lights=True keeps every light
\* and adds exactly one; so the lights are as many as the calls made since
\* and including the last one with keep_other_lights=False
C18_LightReplacement ==
    /\ [][C18_EachCall]_vars
    /\ [](\A k \in Replacing :
              (\A j \in Replacing : j <= k) => LightCount = Len(light_call.calls) - k + 1)

C18_Witness ==
    /\ light_call.calls = <<TRUE, FALSE, TRUE>>
    /\ LightCount = 2
    /\ \E k \in 1 .. Len(data_objects) : data_objects[k].type = "CAMERA"

\* the places of the nodes whose name has node_type in it and which, when
\* created_in_func is not empty, carry it as their tag
Matching ==
    {k \in 1 .. Len(nodes) :
        /\ \E a \in 0 .. Len(nodes[k].bl_idname) :
               /\ a + Len(node_call.node_type) <= Len(nodes[k].bl_idname)
               /\ \A j \in 1 .. Len(node_call.node_type) :
                      nodes[k].bl_idname[a + j] = node_call.node_type[j]
        /\ node_call.created_in_func # "" => nodes[k].tag = node_call.created_in_func}

\* C19: get_the_one_node_with_type returns a node exactly when one node
\* matches, and that node; with no match or several it raises RuntimeError;
\* the nodes are left as they are
C19_TheOneNode ==
    /\ [][nodes' = nodes]_vars
    /\ [](node_call.called =>
              IF Cardinality(Matching) = 1
              THEN /\ ~node_call.out.raised
                   /\ \E k \in Matching : node_call.out.node = nodes[k]
              ELSE node_call.out = [raised |-> TRUE, error |-> "RuntimeError"])

C19_Witness ==
    /\ node_call.called /\ ~node_call.out.raised
    /\ Len(nodes) = 2
    /\ node_call.node_type = <<"b">> /\ node_call.created_in_func = "f"
    /\ node_call.out.node.bl_idname = <<"a", "b">>
    /\ \A k \in 1 .. 2 : nodes[k].bl_idname = <<"a", "b">>

----------------------------------------------------------------------------
(* Properties of uv_unwrap *)

UvDone == uv_call.called /\ uv_call.pc = "done"

\* C20: uv_unwrap returns True when the unwrapping was done and False when it
\* was not; with a method it does not know it returns False
C20_ReturnsBool ==
    UvDone =>
        /\ ~uv_call.out.raised
        /\ uv_call.method \notin
               {"unwrap", "smart_project", "cube_project", "cylinder_project", "sphere_project"}
           => uv_call.out.value = FALSE

----------------------------------------------------------------------------
(* Properties of stdout_redirected *)

InBlock == stdio.blocks # <<>>
Innermost == stdio.blocks[Len(stdio.blocks)]

\* inside a block, descriptor 1 and sys.stdout write to the file of the block
C21_Inside ==
    InBlock => /\ stdio.fds[1] = Innermost.to
               /\ stdio.fds[stdio.sys_stdout.fd] = Innermost.to
               /\ stdio.last.op = "write" => stdio.last.dest = Innermost.to

\* when a block is left, in either way, they write again to what they wrote
\* to when it was entered
C21_Left ==
    stdio.last.op = "exit" =>
        /\ stdio.fds[1] = stdio.last.block.before
        /\ stdio.fds[stdio.sys_stdout.fd] = stdio.last.block.before
        /\ InBlock => stdio.last.block.before = Innermost.to
        /\ ~InBlock => stdio.last.block.before = "terminal"

\* C21: inside a 'with stdout_redirected(to)' block what is written to
\* descriptor 1 goes to the file to; after the block, left normally or by an
\* exception of its body, descriptor 1 and sys.stdout write to what they
\* wrote to before it; nested and repeated blocks each restore what was
\* current when they were entered
C21_Redirection == C21_Inside /\ C21_Left

\* an inner block was left by an exception and the outer block has its file back
C21_Witness ==
    /\ stdio.last.op = "exit" /\ stdio.last.raised
    /\ Len(stdio.blocks) = 1
    /\ stdio.last.block.to # Innermost.to
    /\ stdio.fds[1] = Innermost.to

----------------------------------------------------------------------------
(* Properties of the cameras *)

Cameras == {k \in 1 .. Len(data_objects) : data_objects[k].type = "CAMERA"}

\* C24: after a call of one of the three camera creators, from any scene,
\* the camera it returned is the only camera of the scene and its name is
\* "Camera"
C24_SingleCamera ==
    camera_call.called =>
        /\ \A k \in Cameras : data_objects[k] = camera_call.out
        /\ Cardinality(Cameras) = 1
        /\ camera_call.out.name = "Camera"

----------------------------------------------------------------------------
(* Properties of render_blender_scene_random_pl *)

Splits == 1 .. 3

\* the sum of the sizes of the splits before split d
Earlier(d) == IF d = 1 THEN 0 ELSE IF d = 2 THEN script.Ns[1] ELSE script.Ns[1] + script.Ns[2]

AllSamples == script.Ns[1] + script.Ns[2] + script.Ns[3]

\* the sample indexes the frames noted so far have used
Used == UNION { {script.js[d][k].index : k \in 1 .. Len(script.js[d])} : d \in Splits }

\* frame i of split d uses sample i + Earlier(d) of eyes and of pls
C22_FrameIndex ==
    script.pc \in {"frames", "done"} =>
        \A d \in Splits : \A k \in 1 .. Len(script.js[d]) :
            LET frame == script.js[d][k]
            IN /\ frame.file_path = <<d, k - 1>>
               /\ frame.index = k - 1 + Earlier(d)
               /\ frame.index \in 0 .. AllSamples - 1
               /\ frame.eye = script.eyes[frame.index + 1]
               /\ frame.pl_pos = script.pls[frame.index + 1]

\* at the end the splits have their sizes and every sample was used once
C22_Partition ==
    script.pc = "done" =>
        /\ ~script.out.raised
        /\ Len(script.eyes) = AllSamples /\ Len(script.pls) = AllSamples
        /\ \A d \in Splits : Len(script.js[d]) = script.Ns[d]
        /\ Used = 0 .. AllSamples - 1
        /\ Cardinality(Used) = Len(script.js[1]) + Len(script.js[2]) + Len(script.js[3])

----------------------------------------------------------------------------
(* Properties of the compositor *)

\* the last call of the compositor functions was of fn and it returned
CompReturned(fn) == comp_call.called /\ comp_call.fn = fn /\ ~comp_call.out.raised

OutputNames ==
    {"BPYHelperRGBOutput", "BPYHelperDepthOutput", "BPYHelperNormalOutput",
     "BPYHelperDiffuseOutput", "BPYHelperGlossyOutput", "BPYHelperAlbedoOutput"}

\* a tree without the calls that made its nodes
Shape(t) ==
    [use_nodes |-> t.use_nodes,
     nodes |-> [k \in 1 .. Len(t.nodes) |->
                   [bl_idname |-> t.nodes[k].bl_idname, name |-> t.nodes[k].name,
                    var |-> t.nodes[k].var]],
     links |-> {Link(l.from[2], l.out, l.to[2], l.in) : l \in t.links}]

C25_OnlyThisCall ==
    CompReturned("create_compositing_nodes") =>
        /\ \A k \in 1 .. Len(tree.nodes) : tree.nodes[k].made = comp_call.calls
        /\ \A l \in tree.links : l.from[1] = comp_call.calls /\ l.to[1] = comp_call.calls
        /\ Cardinality({k \in 1 .. Len(tree.nodes) :
                           tree.nodes[k].bl_idname = <<"CompositorNode", "RLayers">>}) = 1
        /\ \A name \in OutputNames :
               /\ Cardinality({k \in 1 .. Len(tree.nodes) : tree.nodes[k].name[1] = name}) <= 1
               /\ \A k \in 1 .. Len(tree.nodes) :
                      tree.nodes[k].name[1] = name =>
                          /\ tree.nodes[k].name[2] = 0
                          /\ tree.nodes[k].bl_idname = <<"CompositorNode", "OutputFile">>

C25_TwiceAsOnce ==
    (/\ CompReturned("create_compositing_nodes")
     /\ comp_call'.calls # comp_call.calls
     /\ comp_call'.fn = "create_compositing_nodes"
     /\ comp_call'.flags = comp_call.flags)
        => Shape(tree)' = Shape(tree)

\* C25: after create_compositing_nodes returns, every node and link of the
\* tree was made by this call, one node is a render layers node and each
\* BPYHelper...Output name is the name of at most one node, a file output;
\* a second call with the same flags leaves the tree the first call left
C25_RebuiltFromEmpty == [](C25_OnlyThisCall) /\ [][C25_TwiceAsOnce]_vars

\* a second call has rebuilt a tree with the normal and the denoised diffuse outputs
C25_Witness ==
    /\ CompReturned("create_compositing_nodes")
    /\ comp_call.calls = 2
    /\ comp_call.flags.enable_normal /\ comp_call.flags.enable_diffuse
    /\ comp_call.flags.use_denoising /\ ~comp_call.flags.enable_depth
    /\ Len(tree.nodes) = 13
    /\ Cardinality(tree.links) = 18

\* C26: when render_depth_map or render_normal_map returns, the tree has the
\* nodes and the links it had before the call
C26_RenderCleanup ==
    [][(/\ comp_call'.calls # comp_call.calls
        /\ comp_call'.fn \in {"render_depth_map", "render_normal_map"}
        /\ ~comp_call'.out.raised)
           => tree'.nodes = tree.nodes /\ tree'.links = tree.links]_vars

\* the passes the outputs asked for by f need
Needed(f) ==
    [use_pass_z |-> f.enable_depth,
     use_pass_normal |-> f.enable_normal,
     use_pass_diffuse_direct |-> f.enable_diffuse,
     use_pass_diffuse_indirect |-> f.enable_diffuse,
     use_pass_diffuse_color |-> f.enable_diffuse \/ f.enable_albedo,
     use_pass_glossy_direct |-> f.enable_glossy,
     use_pass_glossy_indirect |-> f.enable_glossy,
     use_pass_glossy_color |-> f.enable_glossy,
     denoising_store_passes |-> (f.enable_diffuse \/ f.enable_glossy) /\ f.use_denoising]

\* C28: after create_compositing_nodes returns, a pass of the view layer is
\* enabled exactly when an output its flags asked for needs it
C28_PassesFollowRequest ==
    CompReturned("create_compositing_nodes") => passes = Needed(comp_call.flags)

====
